---------------------------- MODULE Spec2Model ----------------------------
(***************************************************************************)
(* Model of the dbt-datahub governance rule engine:                        *)
(*   models/governance.py   ValidationReport, ValidationResult             *)
(*   models/dbt_models.py   DbtModel, DbtManifest                          *)
(*   datahub/urn_mapper.py  UrnMapper                                      *)
(*   datahub/client.py      DataHubClient                                  *)
(*   rules/builtin.py       the built-in rules                             *)
(*   rules/engine.py        GovernanceEngine                               *)
(*                                                                         *)
(* Python str values that the code inspects (names, paths, patterns,       *)
(* identifiers, messages) are sequences of one-character strings, so that  *)
(* upper(), lower(), strip(), `in`, fnmatch and f-string concatenation are *)
(* computed, not assumed.  Identifiers that are only compared for equality *)
(* (unique_id, rule names, severities) are TLA+ strings.                   *)
(***************************************************************************)
EXTENDS Integers, Sequences, FiniteSets, TLC

VARIABLES
    report,             \* ValidationReport under construction / last returned
    pc,                 \* position of the running operation
    manifest,           \* DbtManifest.models, in dict (insertion) order
    config,             \* GovernanceConfig
    rules,              \* GovernanceEngine._rules
    provider,           \* catalog contents seen by the DataHubClient: urn -> status
    raises,             \* urns for which get_governance_status raises
    models_to_validate, \* validate(): the selected models
    all_statuses,       \* the status map handed to the rules
    arg,                \* validate_single_model(): the model_name argument
    cur_status,         \* validate_single_model(): status of the model itself
    mi,                 \* index of the model being evaluated
    ri,                 \* index of the rule being evaluated
    calls,              \* provider calls made by the current run, in order
    evals,              \* rule.validate calls made by the current run, in order
    rule_in,            \* inputs of one rule evaluation
    rule_out,           \* its result
    batch_in,           \* get_governance_status_batch: the dataset_urns argument
    batch_out,          \* its results dict
    call_in,            \* inputs of one call of a mapper or command-line function
    call_out,           \* its result
    report_ref,         \* identity of the ValidationReport object `report` is
    kept                \* reports a caller still holds: identity and contents when returned

vars ==
    <<report, pc, manifest, config, rules, provider, raises, models_to_validate,
      all_statuses, arg, cur_status, mi, ri, calls, evals, rule_in,
      rule_out,
      batch_in, batch_out, call_in, call_out, report_ref, kept>>

-----------------------------------------------------------------------------
(* Bounds of the model.                                                    *)

MaxAdds ==
    3

MaxModels ==
    2

MaxBatch ==
    3

MaxKept ==
    2

-----------------------------------------------------------------------------
(* Python str operations on sequences of characters.                       *)

LowerChars ==
    <<"a","b","c","d","e","f","g","h","i","j","k","l","m",
      "n","o","p","q","r","s","t","u","v","w","x","y","z">>

UpperChars ==
    <<"A","B","C","D","E","F","G","H","I","J","K","L","M",
      "N","O","P","Q","R","S","T","U","V","W","X","Y","Z">>

\* c.upper() and c.lower() of the ASCII letters, as tables
UpperTable ==
    [c \in {LowerChars[i] : i \in 1..Len(LowerChars)} |->
        UpperChars[CHOOSE i \in 1..Len(LowerChars) : LowerChars[i] = c]]

LowerTable ==
    [c \in {UpperChars[i] : i \in 1..Len(UpperChars)} |->
        LowerChars[CHOOSE i \in 1..Len(UpperChars) : UpperChars[i] = c]]

CharUpper(c) ==
    IF c \in DOMAIN UpperTable THEN UpperTable[c] ELSE c

CharLower(c) ==
    IF c \in DOMAIN LowerTable THEN LowerTable[c] ELSE c

\* str.upper()
StrUpper(s) ==
    [i \in 1..Len(s) |-> CharUpper(s[i])]

\* str.lower()
StrLower(s) ==
    [i \in 1..Len(s) |-> CharLower(s[i])]

\* `sub in s`
StrContains(s, sub) ==
    \E i \in 0..(Len(s) - Len(sub)) :
        \A j \in 1..Len(sub) : s[i + j] = sub[j]

\* s.startswith(prefix)
StrStartsWith(s, prefix) ==
    /\ Len(prefix) <= Len(s)
    /\ \A j \in 1..Len(prefix) : s[j] = prefix[j]

\* s.strip(): leading and trailing whitespace removed
StrStrip(s) ==
    LET keep == {i \in 1..Len(s) : s[i] # " "}
    IN  IF keep = {} THEN <<>>
        ELSE LET lo == CHOOSE i \in keep : \A j \in keep : i <= j
                 hi == CHOOSE i \in keep : \A j \in keep : j <= i
             IN  SubSeq(s, lo, hi)

RECURSIVE StrJoin(_, _)
\* sep.join(parts)
StrJoin(sep, parts) ==
    IF Len(parts) = 0 THEN <<>>
    ELSE IF Len(parts) = 1 THEN parts[1]
    ELSE parts[1] \o sep \o StrJoin(sep, Tail(parts))

\* Optional[...] values and dict keys that may be missing
None ==
    [k |-> "none"]

Absent ==
    [k |-> "absent"]

Some(v) ==
    [k |-> "some", v |-> v]

IsSome(x) ==
    x.k = "some"

-----------------------------------------------------------------------------
(* models/governance.py: ValidationResult and ValidationReport.            *)

Severities ==
    {"error", "warning", "info"}

\* ValidationResult.is_error
is_error(r) ==
    ~r.passed /\ r.severity = "error"

\* ValidationResult.is_warning
is_warning(r) ==
    ~r.passed /\ r.severity = "warning"

\* ValidationReport()
NewReport ==
    [results |-> <<>>, total_models_checked |-> 0, total_checks |-> 0,
     errors |-> 0, warnings |-> 0, passed |-> 0]

\* ValidationReport.add_result
add_result(rep, result) ==
    [rep EXCEPT
        !.results = Append(@, result),
        !.total_checks = @ + 1,
        !.passed = IF result.passed THEN @ + 1 ELSE @,
        !.errors = IF ~result.passed /\ result.severity = "error"
                   THEN @ + 1 ELSE @,
        !.warnings = IF ~result.passed /\ result.severity # "error"
                        /\ result.severity = "warning"
                     THEN @ + 1 ELSE @]

\* [r for r in results if test(r)]
Filtered(results, Test(_)) ==
    SelectSeq(results, Test)

\* A slip of get_errors: passing outcomes of error severity are taken too.
get_errors_BySeverity(rep) ==
    LET Test(r) == r.severity = "error"
    IN  Filtered(rep.results, Test)

\* ValidationReport.get_errors
get_errors(rep) ==
    Filtered(rep.results, is_error)

\* ValidationReport.get_warnings
get_warnings(rep) ==
    Filtered(rep.results, is_warning)

\* ValidationReport.get_results_for_model
get_results_for_model(rep, model_unique_id) ==
    LET Test(r) == r.model_unique_id = model_unique_id
    IN  Filtered(rep.results, Test)

\* ValidationReport.has_errors
has_errors(rep) ==
    rep.errors > 0

\* ValidationReport.has_warnings
has_warnings(rep) ==
    rep.warnings > 0

\* ValidationReport.is_successful
is_successful(rep) ==
    ~has_errors(rep)

-----------------------------------------------------------------------------
(* fnmatch.fnmatch as used by GovernanceEngine._should_include_model:      *)
(* `*` any run of characters, `?` one character, `[seq]` / `[!seq]` one    *)
(* character in / not in seq, anything else itself; the whole name must    *)
(* match.  (POSIX normcase is the identity; no `-` ranges occur.)          *)

\* index of the `]` closing the class opened at p[1] = "[", or 0 if none
BracketClose(p) ==
    LET a == IF Len(p) >= 2 /\ p[2] = "!" THEN 3 ELSE 2
        b == IF Len(p) >= a /\ p[a] = "]" THEN a + 1 ELSE a
        closing == {j \in b..Len(p) : p[j] = "]"}
    IN  IF closing = {} THEN 0
        ELSE CHOOSE j \in closing : \A k \in closing : j <= k

RECURSIVE fnmatch(_, _)
fnmatch(name, pat) ==
    IF pat = <<>> THEN name = <<>>
    ELSE IF pat[1] = "*" THEN
        \/ fnmatch(name, Tail(pat))
        \/ name # <<>> /\ fnmatch(Tail(name), pat)
    ELSE IF pat[1] = "?" THEN
        name # <<>> /\ fnmatch(Tail(name), Tail(pat))
    ELSE IF pat[1] = "[" /\ BracketClose(pat) # 0 THEN
        LET c == BracketClose(pat)
            neg == pat[2] = "!"
            members == {pat[k] : k \in (IF neg THEN 3 ELSE 2)..(c - 1)}
        IN  /\ name # <<>>
            /\ (name[1] \in members) # neg
            /\ fnmatch(Tail(name), SubSeq(pat, c + 1, Len(pat)))
    ELSE
        name # <<>> /\ name[1] = pat[1] /\ fnmatch(Tail(name), Tail(pat))

-----------------------------------------------------------------------------
(* datahub/urn_mapper.py: UrnMapper.                                       *)

UrnPrefix ==
    <<"u","r","n",":","l","i",":","d","a","t","a","s","e","t",":","(",
      "u","r","n",":","l","i",":","d","a","t","a","P","l","a","t","f","o","r","m",":">>

Snowflake ==
    <<"s","n","o","w","f","l","a","k","e">>

Postgres ==
    <<"p","o","s","t","g","r","e","s">>

Mysql ==
    <<"m","y","s","q","l">>

Bigquery ==
    <<"b","i","g","q","u","e","r","y">>

Trino ==
    <<"t","r","i","n","o">>

EnvProd ==
    <<"P","R","O","D">>

UPPERCASE_PLATFORMS ==
    {Snowflake}

LOWERCASE_PLATFORMS ==
    {Postgres, Mysql}

\* Python truthiness of an Optional[str]: neither None nor ""
Truthy(x) ==
    IsSome(x) /\ x.v # <<>>

\* `a or b` on Optional[str] values
Or(a, b) ==
    IF Truthy(a) THEN a ELSE b

\* UrnMapper.__init__
UrnMapper(platform, env, platform_instance, custom_database, custom_schema) ==
    [platform |-> StrLower(platform), env |-> env,
     platform_instance |-> platform_instance,
     custom_database |-> custom_database, custom_schema |-> custom_schema]

\* A slip of _normalize_name: the lower-case platforms are left alone.
_normalize_name_UpperOnly(mapper, name) ==
    IF mapper.platform \in UPPERCASE_PLATFORMS THEN StrUpper(name) ELSE name

\* UrnMapper._normalize_name
_normalize_name(mapper, name) ==
    IF mapper.platform \in UPPERCASE_PLATFORMS THEN StrUpper(name)
    ELSE IF mapper.platform \in LOWERCASE_PLATFORMS THEN StrLower(name)
    ELSE name

\* UrnMapper.get_dataset_name
get_dataset_name(mapper, model) ==
    LET database0 == Or(Or(mapper.custom_database, model.database), Some(<<>>))
        schema0 == Or(mapper.custom_schema, Some(model.schema))
        database == IF Truthy(database0)
                    THEN _normalize_name(mapper, database0.v) ELSE <<>>
        schema == _normalize_name(mapper, schema0.v)
        name == _normalize_name(mapper, model.name)
    IN  IF mapper.platform = Bigquery
        THEN database \o <<".">> \o schema \o <<".">> \o name
        ELSE IF database # <<>>
        THEN database \o <<".">> \o schema \o <<".">> \o name
        ELSE schema \o <<".">> \o name

\* UrnMapper._build_urn_manual (the SDK's make_dataset_urn builds the same text)
build_urn(mapper, dataset_name) ==
    IF Truthy(mapper.platform_instance)
    THEN UrnPrefix \o mapper.platform \o <<",">> \o mapper.platform_instance.v
            \o <<".">> \o dataset_name \o <<",">> \o mapper.env \o <<")">>
    ELSE UrnPrefix \o mapper.platform \o <<",">> \o dataset_name
            \o <<",">> \o mapper.env \o <<")">>

\* UrnMapper.model_to_urn
model_to_urn(mapper, model) ==
    build_urn(mapper, get_dataset_name(mapper, model))

\* UrnMapper.source_to_urn
source_to_urn(mapper, source_name, source_database, source_schema) ==
    LET database0 == Or(Or(source_database, mapper.custom_database), Some(<<>>))
        schema0 == Or(Or(source_schema, mapper.custom_schema), Some(<<>>))
        database == IF Truthy(database0)
                    THEN _normalize_name(mapper, database0.v) ELSE <<>>
        schema == IF Truthy(schema0)
                  THEN _normalize_name(mapper, schema0.v) ELSE <<>>
        name == _normalize_name(mapper, source_name)
        dataset_name ==
            IF database # <<>> /\ schema # <<>>
            THEN database \o <<".">> \o schema \o <<".">> \o name
            ELSE IF schema # <<>> THEN schema \o <<".">> \o name
            ELSE name
    IN  build_urn(mapper, dataset_name)

-----------------------------------------------------------------------------
(* models/dbt_models.py: DbtModel and DbtManifest.  A manifest is the      *)
(* sequence of its models in dict order; unique_id is the dict key.        *)

RECURSIVE get_model_from(_, _, _)
get_model_from(mf, i, unique_id) ==
    IF i > Len(mf) THEN None
    ELSE IF mf[i].unique_id = unique_id THEN Some(mf[i])
    ELSE get_model_from(mf, i + 1, unique_id)

\* DbtManifest.get_model: self.models.get(unique_id)
get_model(mf, unique_id) ==
    get_model_from(mf, 1, unique_id)

RECURSIVE get_model_by_name_from(_, _, _)
get_model_by_name_from(mf, i, name) ==
    IF i > Len(mf) THEN None
    ELSE IF mf[i].name = name THEN Some(mf[i])
    ELSE get_model_by_name_from(mf, i + 1, name)

\* DbtManifest.get_model_by_name: the first model of that name, else None
get_model_by_name(mf, name) ==
    get_model_by_name_from(mf, 1, name)

-----------------------------------------------------------------------------
(* Text literals of rules/builtin.py and rules/engine.py.                  *)

\* "Dataset not found in DataHub: "
MsgDatasetNotFound ==
    <<"D","a","t","a","s","e","t"," ","n","o","t"," ","f","o","u","n","d",
      " ","i","n"," ","D","a","t","a","H","u","b",":"," ">>

\* "Model has owner(s): "
MsgHasOwners ==
    <<"M","o","d","e","l"," ","h","a","s"," ","o","w","n","e","r","(","s",
      ")",":"," ">>

\* "Model does not have an owner assigned in DataHub"
MsgNoOwner ==
    <<"M","o","d","e","l"," ","d","o","e","s"," ","n","o","t"," ","h","a",
      "v","e"," ","a","n"," ","o","w","n","e","r"," ","a","s","s","i","g",
      "n","e","d"," ","i","n"," ","D","a","t","a","H","u","b">>

\* "Model has description in dbt manifest"
MsgDescInDbt ==
    <<"M","o","d","e","l"," ","h","a","s"," ","d","e","s","c","r","i","p",
      "t","i","o","n"," ","i","n"," ","d","b","t"," ","m","a","n","i","f",
      "e","s","t">>

\* "Model has description in DataHub"
MsgDescInDataHub ==
    <<"M","o","d","e","l"," ","h","a","s"," ","d","e","s","c","r","i","p",
      "t","i","o","n"," ","i","n"," ","D","a","t","a","H","u","b">>

\* "Model does not have a description in dbt or DataHub"
MsgNoDesc ==
    <<"M","o","d","e","l"," ","d","o","e","s"," ","n","o","t"," ","h","a",
      "v","e"," ","a"," ","d","e","s","c","r","i","p","t","i","o","n"," ",
      "i","n"," ","d","b","t"," ","o","r"," ","D","a","t","a","H","u","b">>

\* "Model is assigned to domain: "
MsgHasDomain ==
    <<"M","o","d","e","l"," ","i","s"," ","a","s","s","i","g","n","e","d",
      " ","t","o"," ","d","o","m","a","i","n",":"," ">>

\* "Model is not assigned to any domain in DataHub"
MsgNoDomain ==
    <<"M","o","d","e","l"," ","i","s"," ","n","o","t"," ","a","s","s","i",
      "g","n","e","d"," ","t","o"," ","a","n","y"," ","d","o","m","a","i",
      "n"," ","i","n"," ","D","a","t","a","H","u","b">>

\* "Model depends on deprecated datasets: "
MsgDeprecated ==
    <<"M","o","d","e","l"," ","d","e","p","e","n","d","s"," ","o","n"," ",
      "d","e","p","r","e","c","a","t","e","d"," ","d","a","t","a","s","e",
      "t","s",":"," ">>

\* "No deprecated upstream dependencies found"
MsgNoDeprecated ==
    <<"N","o"," ","d","e","p","r","e","c","a","t","e","d"," ","u","p","s",
      "t","r","e","a","m"," ","d","e","p","e","n","d","e","n","c","i","e",
      "s"," ","f","o","u","n","d">>

\* "Upstream dependencies without owners: "
MsgUnowned ==
    <<"U","p","s","t","r","e","a","m"," ","d","e","p","e","n","d","e","n",
      "c","i","e","s"," ","w","i","t","h","o","u","t"," ","o","w","n","e",
      "r","s",":"," ">>

\* "All upstream dependencies have owners"
MsgAllOwned ==
    <<"A","l","l"," ","u","p","s","t","r","e","a","m"," ","d","e","p","e",
      "n","d","e","n","c","i","e","s"," ","h","a","v","e"," ","o","w","n",
      "e","r","s">>

\* "Model has dbt tags: "
MsgDbtTags ==
    <<"M","o","d","e","l"," ","h","a","s"," ","d","b","t"," ","t","a","g",
      "s",":"," ">>

\* "Model has DataHub tags: "
MsgDataHubTags ==
    <<"M","o","d","e","l"," ","h","a","s"," ","D","a","t","a","H","u","b",
      " ","t","a","g","s",":"," ">>

\* "Model does not have any tags in dbt or DataHub"
MsgNoTags ==
    <<"M","o","d","e","l"," ","d","o","e","s"," ","n","o","t"," ","h","a",
      "v","e"," ","a","n","y"," ","t","a","g","s"," ","i","n"," ","d","b",
      "t"," ","o","r"," ","D","a","t","a","H","u","b">>

\* "No columns defined in model"
MsgNoColumns ==
    <<"N","o"," ","c","o","l","u","m","n","s"," ","d","e","f","i","n","e",
      "d"," ","i","n"," ","m","o","d","e","l">>

\* "Columns missing descriptions: "
MsgColsMissing ==
    <<"C","o","l","u","m","n","s"," ","m","i","s","s","i","n","g"," ","d",
      "e","s","c","r","i","p","t","i","o","n","s",":"," ">>

\* "All "
MsgAll ==
    <<"A","l","l"," ">>

\* " columns have descriptions"
MsgColsHaveDesc ==
    <<" ","c","o","l","u","m","n","s"," ","h","a","v","e"," ","d","e","s",
      "c","r","i","p","t","i","o","n","s">>

\* "Model follows naming convention with prefix '"
MsgPrefixOk ==
    <<"M","o","d","e","l"," ","f","o","l","l","o","w","s"," ","n","a","m",
      "i","n","g"," ","c","o","n","v","e","n","t","i","o","n"," ","w","i",
      "t","h"," ","p","r","e","f","i","x"," ","'">>

\* "Model name '"
MsgNameBad1 ==
    <<"M","o","d","e","l"," ","n","a","m","e"," ","'">>

\* "' does not follow naming conventions (expected: "
MsgNameBad2 ==
    <<"'"," ","d","o","e","s"," ","n","o","t"," ","f","o","l","l","o","w",
      " ","n","a","m","i","n","g"," ","c","o","n","v","e","n","t","i","o",
      "n","s"," ","(","e","x","p","e","c","t","e","d",":"," ">>

\* "Model has materialization: "
MsgHasMat ==
    <<"M","o","d","e","l"," ","h","a","s"," ","m","a","t","e","r","i","a",
      "l","i","z","a","t","i","o","n",":"," ">>

\* "Model does not have explicit materialization configured"
MsgNoMat ==
    <<"M","o","d","e","l"," ","d","o","e","s"," ","n","o","t"," ","h","a",
      "v","e"," ","e","x","p","l","i","c","i","t"," ","m","a","t","e","r",
      "i","a","l","i","z","a","t","i","o","n"," ","c","o","n","f","i","g",
      "u","r","e","d">>

\* "Model has "
MsgModelHas ==
    <<"M","o","d","e","l"," ","h","a","s"," ">>

\* " upstream dependencies (max: "
MsgDepsMax ==
    <<" ","u","p","s","t","r","e","a","m"," ","d","e","p","e","n","d","e",
      "n","c","i","e","s"," ","(","m","a","x",":"," ">>

\* " upstream dependencies (within limit of "
MsgDepsWithin ==
    <<" ","u","p","s","t","r","e","a","m"," ","d","e","p","e","n","d","e",
      "n","c","i","e","s"," ","(","w","i","t","h","i","n"," ","l","i","m",
      "i","t"," ","o","f"," ">>

\* "No PII columns detected"
MsgNoPii ==
    <<"N","o"," ","P","I","I"," ","c","o","l","u","m","n","s"," ","d","e",
      "t","e","c","t","e","d">>

\* "Model with PII columns is properly tagged"
MsgPiiTagged ==
    <<"M","o","d","e","l"," ","w","i","t","h"," ","P","I","I"," ","c","o",
      "l","u","m","n","s"," ","i","s"," ","p","r","o","p","e","r","l","y",
      " ","t","a","g","g","e","d">>

\* "Model has PII columns ("
MsgPiiCols ==
    <<"M","o","d","e","l"," ","h","a","s"," ","P","I","I"," ","c","o","l",
      "u","m","n","s"," ","(">>

\* ") but is not tagged with 'pii'"
MsgPiiNotTagged ==
    <<")"," ","b","u","t"," ","i","s"," ","n","o","t"," ","t","a","g","g",
      "e","d"," ","w","i","t","h"," ","'","p","i","i","'">>

\* "Rule execution error: "
MsgRuleExecutionError ==
    <<"R","u","l","e"," ","e","x","e","c","u","t","i","o","n"," ","e","r",
      "r","o","r",":"," ">>

\* "Model not found in manifest: "
MsgModelNotFound ==
    <<"M","o","d","e","l"," ","n","o","t"," ","f","o","u","n","d"," ","i",
      "n"," ","m","a","n","i","f","e","s","t",":"," ">>

\* "'NoneType' object has no attribute 'strip'"
ErrNoneStrip ==
    <<"'","N","o","n","e","T","y","p","e","'"," ","o","b","j","e","c","t",
      " ","h","a","s"," ","n","o"," ","a","t","t","r","i","b","u","t","e",
      " ","'","s","t","r","i","p","'">>

\* "'NoneType' object has no attribute 'get'"
ErrNoneGet ==
    <<"'","N","o","n","e","T","y","p","e","'"," ","o","b","j","e","c","t",
      " ","h","a","s"," ","n","o"," ","a","t","t","r","i","b","u","t","e",
      " ","'","g","e","t","'">>

\* "not found"
NotFoundText ==
    <<"n","o","t"," ","f","o","u","n","d">>

\* "None"
NoneText ==
    <<"N","o","n","e">>

\* "pii"
PiiTag ==
    <<"p","i","i">>

\* NamingConventionRule.VALID_PREFIXES
VALID_PREFIXES ==
    << <<"s","t","g","_">>, <<"i","n","t","_">>, <<"d","i","m","_">>,
       <<"f","c","t","_">>, <<"r","p","t","_">>, <<"b","a","s","e","_">>,
       <<"r","a","w","_">> >>

\* RequirePIITagRule.PII_INDICATORS
PII_INDICATORS ==
    << <<"e","m","a","i","l">>, <<"p","h","o","n","e">>, <<"s","s","n">>,
       <<"a","d","d","r","e","s","s">>, <<"n","a","m","e">>, <<"d","o","b">>,
       <<"b","i","r","t","h">> >>

\* default of max_dependencies in MaxUpstreamDependenciesRule.validate
DefaultMaxDependencies ==
    10

RECURSIVE IntToStr(_)
\* str(n) of a non-negative int, as in an f-string
IntToStr(n) ==
    LET digits == <<"0","1","2","3","4","5","6","7","8","9">>
    IN  IF n < 10 THEN <<digits[n + 1]>>
        ELSE IntToStr(n \div 10) \o <<digits[(n % 10) + 1]>>

\* an Optional[str] inside an f-string
FmtOpt(x) ==
    IF IsSome(x) THEN x.v ELSE NoneText

\* seq[:n]
Take(seq, n) ==
    SubSeq(seq, 1, IF Len(seq) < n THEN Len(seq) ELSE n)

-----------------------------------------------------------------------------
(* rules/base.py and rules/builtin.py.  A rule is [rule_name, severity,    *)
(* config]; validate yields Returned(outcome) or Raised(error text).       *)

Returned(result) ==
    [raised |-> FALSE, result |-> result]

Raised(error) ==
    [raised |-> TRUE, error |-> error]

\* DatasetGovernanceStatus(urn=urn, exists=False): every other field defaulted
StatusNotExists(urn) ==
    [urn |-> urn, exists |-> FALSE, has_owner |-> FALSE,
     has_description |-> FALSE, has_domain |-> FALSE, has_tags |-> FALSE,
     is_deprecated |-> FALSE, owners |-> <<>>, domain |-> None, tags |-> <<>>,
     description |-> None, deprecation_note |-> None]

\* BaseRule._create_result
_create_result(rule, model, passed, message, details) ==
    Returned([rule_name |-> rule.rule_name, model_name |-> model.name,
              model_unique_id |-> model.unique_id, passed |-> passed,
              severity |-> rule.severity, message |-> message,
              details |-> details])

\* A slip of RequireOwnerRule.validate: existence is not checked first.
RequireOwnerRule_validate_NoExistsCheck(rule, model, status, mf, statuses) ==
    IF status.has_owner THEN
        _create_result(rule, model, TRUE,
            MsgHasOwners \o StrJoin(<<",", " ">>, status.owners),
            [owners |-> status.owners])
    ELSE
        _create_result(rule, model, FALSE, MsgNoOwner, [urn |-> status.urn])

\* RequireOwnerRule.validate
RequireOwnerRule_validate(rule, model, status, mf, statuses) ==
    IF ~status.exists THEN
        _create_result(rule, model, FALSE, MsgDatasetNotFound \o status.urn,
            [urn |-> status.urn, reason |-> "not_found"])
    ELSE IF status.has_owner THEN
        _create_result(rule, model, TRUE,
            MsgHasOwners \o StrJoin(<<",", " ">>, status.owners),
            [owners |-> status.owners])
    ELSE
        _create_result(rule, model, FALSE, MsgNoOwner, [urn |-> status.urn])

\* A slip of RequireDescriptionRule.validate: the catalog is consulted first.
RequireDescriptionRule_validate_CatalogFirst(rule, model, status, mf, statuses) ==
    IF status.exists /\ status.has_description THEN
        _create_result(rule, model, TRUE, MsgDescInDataHub,
            [source |-> "datahub",
             description |-> Take(Or(status.description, Some(<<>>)).v, 100)])
    ELSE IF Truthy(model.description) /\ StrStrip(model.description.v) # <<>> THEN
        _create_result(rule, model, TRUE, MsgDescInDbt,
            [source |-> "dbt", description |-> Take(model.description.v, 100)])
    ELSE
        _create_result(rule, model, FALSE, MsgNoDesc,
            [urn |-> IF status.exists THEN Some(status.urn) ELSE None])

\* RequireDescriptionRule.validate
RequireDescriptionRule_validate(rule, model, status, mf, statuses) ==
    IF Truthy(model.description) /\ StrStrip(model.description.v) # <<>> THEN
        _create_result(rule, model, TRUE, MsgDescInDbt,
            [source |-> "dbt", description |-> Take(model.description.v, 100)])
    ELSE IF status.exists /\ status.has_description THEN
        _create_result(rule, model, TRUE, MsgDescInDataHub,
            [source |-> "datahub",
             description |-> Take(Or(status.description, Some(<<>>)).v, 100)])
    ELSE
        _create_result(rule, model, FALSE, MsgNoDesc,
            [urn |-> IF status.exists THEN Some(status.urn) ELSE None])

\* RequireDomainRule.validate
RequireDomainRule_validate(rule, model, status, mf, statuses) ==
    IF ~status.exists THEN
        _create_result(rule, model, FALSE, MsgDatasetNotFound \o status.urn,
            [urn |-> status.urn, reason |-> "not_found"])
    ELSE IF status.has_domain THEN
        _create_result(rule, model, TRUE, MsgHasDomain \o FmtOpt(status.domain),
            [domain |-> status.domain])
    ELSE
        _create_result(rule, model, FALSE, MsgNoDomain, [urn |-> status.urn])

\* A slip of the name match: the name is looked for as it is written.
NameInUrn_CaseSensitive(name, urn) ==
    StrContains(urn, name)

\* `dep_model.name.upper() in urn.upper() or dep_model.name.lower() in urn.lower()`
NameInUrn(name, urn) ==
    \/ StrContains(StrUpper(urn), StrUpper(name))
    \/ StrContains(StrLower(urn), StrLower(name))

RECURSIVE DeprecatedIn(_, _, _)
\* inner loop of NoDeprecatedUpstreamRule.validate over all_statuses.items()
DeprecatedIn(dep_model, statuses, j) ==
    IF j > Len(statuses) THEN <<>>
    ELSE LET urn == statuses[j].urn
             dep_status == statuses[j].status
             hit == /\ dep_status.exists /\ dep_status.is_deprecated
                    /\ NameInUrn(dep_model.name, urn)
         IN  (IF hit THEN <<[name |-> dep_model.name, urn |-> urn,
                            note |-> dep_status.deprecation_note]>>
              ELSE <<>>) \o DeprecatedIn(dep_model, statuses, j + 1)

RECURSIVE DeprecatedUpstreams(_, _, _, _)
\* outer loop of NoDeprecatedUpstreamRule.validate over model.depends_on
DeprecatedUpstreams(model, mf, statuses, i) ==
    IF i > Len(model.depends_on) THEN <<>>
    ELSE LET dep_model == get_model(mf, model.depends_on[i])
         IN  (IF IsSome(dep_model) THEN DeprecatedIn(dep_model.v, statuses, 1)
              ELSE <<>>) \o DeprecatedUpstreams(model, mf, statuses, i + 1)

\* NoDeprecatedUpstreamRule.validate
\* (the list deprecated_upstreams is built by the loops, then read)
NoDeprecatedUpstreamRule_validate(rule, model, status, mf, statuses) ==
    CHOOSE result \in
        { LET dep_names == [k \in 1..Len(deprecated_upstreams) |->
                                deprecated_upstreams[k].name]
          IN  IF deprecated_upstreams # <<>> THEN
                  _create_result(rule, model, FALSE,
                      MsgDeprecated \o StrJoin(<<",", " ">>, dep_names),
                      [deprecated_upstreams |-> deprecated_upstreams])
              ELSE
                  _create_result(rule, model, TRUE, MsgNoDeprecated,
                      [checked_dependencies |-> Len(model.depends_on)]) :
          deprecated_upstreams \in {DeprecatedUpstreams(model, mf, statuses, 1)} } :
        TRUE

RECURSIVE UnownedIn(_, _, _)
\* inner loop of UpstreamMustHaveOwnerRule.validate over all_statuses.items()
UnownedIn(dep_model, statuses, j) ==
    IF j > Len(statuses) THEN <<>>
    ELSE LET urn == statuses[j].urn
             dep_status == statuses[j].status
             hit == /\ dep_status.exists /\ ~dep_status.has_owner
                    /\ NameInUrn(dep_model.name, urn)
         IN  (IF hit THEN <<[name |-> dep_model.name, urn |-> urn]>>
              ELSE <<>>) \o UnownedIn(dep_model, statuses, j + 1)

RECURSIVE UnownedUpstreams(_, _, _, _)
\* outer loop of UpstreamMustHaveOwnerRule.validate over model.depends_on
UnownedUpstreams(model, mf, statuses, i) ==
    IF i > Len(model.depends_on) THEN <<>>
    ELSE LET dep_model == get_model(mf, model.depends_on[i])
         IN  (IF IsSome(dep_model) THEN UnownedIn(dep_model.v, statuses, 1)
              ELSE <<>>) \o UnownedUpstreams(model, mf, statuses, i + 1)

\* UpstreamMustHaveOwnerRule.validate
\* (the list unowned_upstreams is built by the loops, then read)
UpstreamMustHaveOwnerRule_validate(rule, model, status, mf, statuses) ==
    CHOOSE result \in
        { LET dep_names == [k \in 1..Len(unowned_upstreams) |->
                                unowned_upstreams[k].name]
          IN  IF unowned_upstreams # <<>> THEN
                  _create_result(rule, model, FALSE,
                      MsgUnowned \o StrJoin(<<",", " ">>, dep_names),
                      [unowned_upstreams |-> unowned_upstreams])
              ELSE
                  _create_result(rule, model, TRUE, MsgAllOwned,
                      [checked_dependencies |-> Len(model.depends_on)]) :
          unowned_upstreams \in {UnownedUpstreams(model, mf, statuses, 1)} } :
        TRUE

\* A slip of RequireTagsRule.validate: has_tags is read without exists.
RequireTagsRule_validate_NoExistsCheck(rule, model, status, mf, statuses) ==
    IF model.tags # <<>> THEN
        _create_result(rule, model, TRUE,
            MsgDbtTags \o StrJoin(<<",", " ">>, model.tags),
            [source |-> "dbt", tags |-> model.tags])
    ELSE IF status.has_tags THEN
        _create_result(rule, model, TRUE,
            MsgDataHubTags \o StrJoin(<<",", " ">>, status.tags),
            [source |-> "datahub", tags |-> status.tags])
    ELSE
        _create_result(rule, model, FALSE, MsgNoTags,
            [urn |-> IF status.exists THEN Some(status.urn) ELSE None])

\* RequireTagsRule.validate
RequireTagsRule_validate(rule, model, status, mf, statuses) ==
    IF model.tags # <<>> THEN
        _create_result(rule, model, TRUE,
            MsgDbtTags \o StrJoin(<<",", " ">>, model.tags),
            [source |-> "dbt", tags |-> model.tags])
    ELSE IF status.exists /\ status.has_tags THEN
        _create_result(rule, model, TRUE,
            MsgDataHubTags \o StrJoin(<<",", " ">>, status.tags),
            [source |-> "datahub", tags |-> status.tags])
    ELSE
        _create_result(rule, model, FALSE, MsgNoTags,
            [urn |-> IF status.exists THEN Some(status.urn) ELSE None])

\* `col_info.get("description", "")`, then `.strip()` on it: a missing key
\* reads as "", a None value has no strip()
ColumnDescription(col_info) ==
    IF col_info.description.k = "absent" THEN Returned(<<>>)
    ELSE IF col_info.description.k = "none" THEN Raised(ErrNoneStrip)
    ELSE Returned(StrStrip(col_info.description.v))

\* RequireColumnDescriptionsRule.validate
RequireColumnDescriptionsRule_validate(rule, model, status, mf, statuses) ==
    IF model.columns = <<>> THEN
        _create_result(rule, model, TRUE, MsgNoColumns, [column_count |-> 0])
    ELSE IF \E i \in 1..Len(model.columns) :
                ColumnDescription(model.columns[i].info).raised THEN
        Raised(ErrNoneStrip)
    ELSE
        LET missing == SelectSeq(model.columns,
                LAMBDA col : ColumnDescription(col.info).result = <<>>)
            names == [k \in 1..Len(missing) |-> missing[k].name]
            preview == StrJoin(<<",", " ">>, Take(names, 5))
                        \o (IF Len(names) > 5 THEN <<".", ".", ".">> ELSE <<>>)
        IN  IF names # <<>> THEN
                _create_result(rule, model, FALSE, MsgColsMissing \o preview,
                    [missing_columns |-> names,
                     total_columns |-> Len(model.columns),
                     missing_count |-> Len(names)])
            ELSE
                _create_result(rule, model, TRUE,
                    MsgAll \o IntToStr(Len(model.columns)) \o MsgColsHaveDesc,
                    [column_count |-> Len(model.columns)])

RECURSIVE FirstPrefix(_, _, _)
\* loop of NamingConventionRule.validate: the first prefix the name starts with
FirstPrefix(name, prefixes, i) ==
    IF i > Len(prefixes) THEN None
    ELSE IF StrStartsWith(name, prefixes[i]) THEN Some(prefixes[i])
    ELSE FirstPrefix(name, prefixes, i + 1)

\* NamingConventionRule.validate
NamingConventionRule_validate(rule, model, status, mf, statuses) ==
    LET prefix == FirstPrefix(StrLower(model.name), VALID_PREFIXES, 1)
    IN  IF IsSome(prefix) THEN
            _create_result(rule, model, TRUE,
                MsgPrefixOk \o prefix.v \o <<"'">>, [prefix |-> prefix.v])
        ELSE
            _create_result(rule, model, FALSE,
                MsgNameBad1 \o model.name \o MsgNameBad2
                    \o StrJoin(<<",", " ">>, VALID_PREFIXES) \o <<")">>,
                [valid_prefixes |-> VALID_PREFIXES, model_name |-> model.name])

\* RequireMaterializationRule.validate
RequireMaterializationRule_validate(rule, model, status, mf, statuses) ==
    LET materialized == model.config.materialized
    IN  IF Truthy(materialized) THEN
            _create_result(rule, model, TRUE, MsgHasMat \o materialized.v,
                [materialization |-> materialized.v])
        ELSE
            _create_result(rule, model, FALSE, MsgNoMat,
                [config |-> model.config])

\* A slip of MaxUpstreamDependenciesRule.validate: the limit itself is refused.
MaxUpstreamDependenciesRule_validate_Strict(rule, model, status, mf, statuses) ==
    LET max_deps == IF IsSome(rule.config.max_dependencies)
                    THEN rule.config.max_dependencies.v
                    ELSE DefaultMaxDependencies
        dep_count == Len(model.depends_on)
    IN  IF dep_count >= max_deps THEN
            _create_result(rule, model, FALSE,
                MsgModelHas \o IntToStr(dep_count) \o MsgDepsMax
                    \o IntToStr(max_deps) \o <<")">>,
                [dependency_count |-> dep_count, max_allowed |-> max_deps,
                 dependencies |-> Take(model.depends_on, 10)])
        ELSE
            _create_result(rule, model, TRUE,
                MsgModelHas \o IntToStr(dep_count) \o MsgDepsWithin
                    \o IntToStr(max_deps) \o <<")">>,
                [dependency_count |-> dep_count, max_allowed |-> max_deps])

\* MaxUpstreamDependenciesRule.validate
MaxUpstreamDependenciesRule_validate(rule, model, status, mf, statuses) ==
    LET max_deps == IF IsSome(rule.config.max_dependencies)
                    THEN rule.config.max_dependencies.v
                    ELSE DefaultMaxDependencies
        dep_count == Len(model.depends_on)
    IN  IF dep_count > max_deps THEN
            _create_result(rule, model, FALSE,
                MsgModelHas \o IntToStr(dep_count) \o MsgDepsMax
                    \o IntToStr(max_deps) \o <<")">>,
                [dependency_count |-> dep_count, max_allowed |-> max_deps,
                 dependencies |-> Take(model.depends_on, 10)])
        ELSE
            _create_result(rule, model, TRUE,
                MsgModelHas \o IntToStr(dep_count) \o MsgDepsWithin
                    \o IntToStr(max_deps) \o <<")">>,
                [dependency_count |-> dep_count, max_allowed |-> max_deps])

\* `col_info.get("meta", {}).get("pii")`: a missing key reads as {}, a None
\* value has no get()
ColumnMetaPii(col_info) ==
    IF col_info.meta.k = "absent" THEN Returned(FALSE)
    ELSE IF col_info.meta.k = "none" THEN Raised(ErrNoneGet)
    ELSE Returned(col_info.meta.v.pii)

\* `any(indicator in col_lower for indicator in self.PII_INDICATORS)`
LooksLikePii(col_name) ==
    \E i \in 1..Len(PII_INDICATORS) :
        StrContains(StrLower(col_name), PII_INDICATORS[i])

\* RequirePIITagRule.validate
RequirePIITagRule_validate(rule, model, status, mf, statuses) ==
    IF \E i \in 1..Len(model.columns) :
            ColumnMetaPii(model.columns[i].info).raised THEN
        Raised(ErrNoneGet)
    ELSE
        LET pii == SelectSeq(model.columns,
                LAMBDA col : \/ ColumnMetaPii(col.info).result
                             \/ LooksLikePii(col.name))
            pii_columns == [k \in 1..Len(pii) |-> pii[k].name]
            has_pii_tag == \E t \in 1..Len(model.tags) :
                                StrLower(model.tags[t]) = PiiTag
        IN  IF pii_columns = <<>> THEN
                _create_result(rule, model, TRUE, MsgNoPii,
                    [checked_columns |-> Len(model.columns)])
            ELSE IF has_pii_tag THEN
                _create_result(rule, model, TRUE, MsgPiiTagged,
                    [pii_columns |-> pii_columns])
            ELSE
                _create_result(rule, model, FALSE,
                    MsgPiiCols \o StrJoin(<<",", " ">>, Take(pii_columns, 3))
                        \o MsgPiiNotTagged,
                    [pii_columns |-> pii_columns, current_tags |-> model.tags])

-----------------------------------------------------------------------------
(* rules/engine.py: RULE_REGISTRY and rule dispatch.                       *)

RULE_REGISTRY ==
    {"require_owner", "require_description", "require_domain",
     "no_deprecated_upstream", "upstream_must_have_owner", "require_tags",
     "require_column_descriptions", "naming_convention",
     "require_materialization", "max_upstream_dependencies",
     "require_pii_tag"}

\* rule.validate(model, status, manifest, all_statuses) of the rule's class
RuleValidate(rule, model, status, mf, statuses) ==
    CASE rule.rule_name = "require_owner" ->
            RequireOwnerRule_validate(rule, model, status, mf, statuses)
      [] rule.rule_name = "require_description" ->
            RequireDescriptionRule_validate(rule, model, status, mf, statuses)
      [] rule.rule_name = "require_domain" ->
            RequireDomainRule_validate(rule, model, status, mf, statuses)
      [] rule.rule_name = "no_deprecated_upstream" ->
            NoDeprecatedUpstreamRule_validate(rule, model, status, mf, statuses)
      [] rule.rule_name = "upstream_must_have_owner" ->
            UpstreamMustHaveOwnerRule_validate(rule, model, status, mf, statuses)
      [] rule.rule_name = "require_tags" ->
            RequireTagsRule_validate(rule, model, status, mf, statuses)
      [] rule.rule_name = "require_column_descriptions" ->
            RequireColumnDescriptionsRule_validate(rule, model, status, mf, statuses)
      [] rule.rule_name = "naming_convention" ->
            NamingConventionRule_validate(rule, model, status, mf, statuses)
      [] rule.rule_name = "require_materialization" ->
            RequireMaterializationRule_validate(rule, model, status, mf, statuses)
      [] rule.rule_name = "max_upstream_dependencies" ->
            MaxUpstreamDependenciesRule_validate(rule, model, status, mf, statuses)
      [] rule.rule_name = "require_pii_tag" ->
            RequirePIITagRule_validate(rule, model, status, mf, statuses)

-----------------------------------------------------------------------------
(* Ordered dicts (insertion order) as sequences of [urn, status] entries.  *)

DictHas(d, urn) ==
    \E i \in 1..Len(d) : d[i].urn = urn

\* A slip of the status lookup: the default is taken whatever the dict holds.
DictGet_Default(d, urn, default) ==
    default

\* d.get(urn, default)
DictGet(d, urn, default) ==
    IF DictHas(d, urn)
    THEN d[CHOOSE i \in 1..Len(d) : d[i].urn = urn].status
    ELSE default

\* d[urn] = status: a new key goes last, an old key keeps its place
DictSet(d, urn, status) ==
    IF DictHas(d, urn)
    THEN [i \in 1..Len(d) |->
            IF d[i].urn = urn THEN [urn |-> urn, status |-> status] ELSE d[i]]
    ELSE Append(d, [urn |-> urn, status |-> status])

DictKeys(d) ==
    {d[i].urn : i \in 1..Len(d)}

\* list(s) of a set s: its elements once each, in an order that set hashing
\* decides
ListsOf(S) ==
    {l \in [1..Cardinality(S) -> S] : \A i, j \in DOMAIN l : l[i] = l[j] => i = j}

-----------------------------------------------------------------------------
(* datahub/client.py: the status provider.  `cat` maps the identifiers the *)
(* catalog knows to their status; `failing` holds the identifiers whose    *)
(* single fetch raises (a provider that does not fail closed, the case     *)
(* get_governance_status_batch guards with try/except).                    *)

ErrFetch ==
    <<"f","e","t","c","h"," ","f","a","i","l","e","d">>

\* get_governance_status(dataset_urn)
get_governance_status(cat, failing, urn) ==
    IF urn \in failing THEN Raised(ErrFetch)
    ELSE IF urn \in DOMAIN cat THEN Returned(cat[urn])
    ELSE Returned(StatusNotExists(urn))

RECURSIVE BatchLoop_AbortOnError(_, _, _, _, _)
\* A slip of the batch loop: the first failing fetch ends the loop.
BatchLoop_AbortOnError(cat, failing, dataset_urns, i, results) ==
    IF i > Len(dataset_urns) THEN results
    ELSE LET urn == dataset_urns[i]
             got == get_governance_status(cat, failing, urn)
         IN  IF got.raised THEN results
             ELSE BatchLoop_AbortOnError(cat, failing, dataset_urns, i + 1,
                        DictSet(results, urn, got.result))

RECURSIVE BatchLoop(_, _, _, _, _)
\* loop of get_governance_status_batch, from position i with `results` so far
BatchLoop(cat, failing, dataset_urns, i, results) ==
    IF i > Len(dataset_urns) THEN results
    ELSE LET urn == dataset_urns[i]
             got == get_governance_status(cat, failing, urn)
             status == IF got.raised THEN StatusNotExists(urn) ELSE got.result
         IN  BatchLoop(cat, failing, dataset_urns, i + 1,
                       DictSet(results, urn, status))

\* A slip of get_governance_status_batch: no try/except around the fetch.
get_governance_status_batch_AbortOnError(cat, failing, dataset_urns) ==
    BatchLoop_AbortOnError(cat, failing, dataset_urns, 1, <<>>)

\* DataHubClient.get_governance_status_batch
get_governance_status_batch(cat, failing, dataset_urns) ==
    BatchLoop(cat, failing, dataset_urns, 1, <<>>)

-----------------------------------------------------------------------------
(* rules/engine.py: GovernanceEngine.                                      *)

RECURSIVE InitializeRulesFrom(_, _)
\* loop of GovernanceEngine._initialize_rules over config.rules.items()
InitializeRulesFrom(rule_configs, i) ==
    IF i > Len(rule_configs) THEN <<>>
    ELSE LET rule_config == rule_configs[i]
         IN  (IF rule_config.enabled /\ rule_config.name \in RULE_REGISTRY
              THEN <<[rule_name |-> rule_config.name,
                      severity |-> rule_config.severity,
                      config |-> rule_config.config]>>
              ELSE <<>>) \o InitializeRulesFrom(rule_configs, i + 1)

\* A slip of _initialize_rules: the enabled flag is not consulted.
_initialize_rules_IgnoreEnabled(cfg) ==
    LET known == SelectSeq(cfg.rules, LAMBDA rc : rc.name \in RULE_REGISTRY)
    IN  [i \in 1..Len(known) |->
            [rule_name |-> known[i].name, severity |-> known[i].severity,
             config |-> known[i].config]]

\* A slip of _initialize_rules: the list is built back to front.
_initialize_rules_Reversed(cfg) ==
    LET made == InitializeRulesFrom(cfg.rules, 1)
    IN  [i \in 1..Len(made) |-> made[Len(made) + 1 - i]]

\* GovernanceEngine._initialize_rules: the engine's _rules list
_initialize_rules(cfg) ==
    InitializeRulesFrom(cfg.rules, 1)

\* GovernanceEngine.__init__: self.urn_mapper
EngineMapper(cfg) ==
    UrnMapper(cfg.target_platform, cfg.environment, cfg.platform_instance,
              None, None)

RECURSIVE AnyPatternMatches(_, _, _)
\* `for pattern in patterns: if fnmatch(name) or fnmatch(path): return ...`
AnyPatternMatches(model, patterns, i) ==
    IF i > Len(patterns) THEN FALSE
    ELSE IF fnmatch(model.name, patterns[i]) \/ fnmatch(model.path, patterns[i])
    THEN TRUE
    ELSE AnyPatternMatches(model, patterns, i + 1)

\* A slip of _should_include_model: the include patterns are tried first.
_should_include_model_IncludeFirst(cfg, model) ==
    IF AnyPatternMatches(model, cfg.include_patterns, 1) THEN TRUE
    ELSE FALSE

\* GovernanceEngine._should_include_model
_should_include_model(cfg, model) ==
    IF AnyPatternMatches(model, cfg.exclude_patterns, 1) THEN FALSE
    ELSE IF AnyPatternMatches(model, cfg.include_patterns, 1) THEN TRUE
    ELSE FALSE

RECURSIVE DepUrns_TwoHops(_, _, _, _)
\* A slip of the dependency loop: the dependencies of a dependency are taken too.
DepUrns_TwoHops(cfg, mf, model, i) ==
    IF i > Len(model.depends_on) THEN {}
    ELSE LET dep_model == get_model(mf, model.depends_on[i])
         IN  (IF IsSome(dep_model)
              THEN {model_to_urn(EngineMapper(cfg), dep_model.v)} \cup
                   {model_to_urn(EngineMapper(cfg), mf[j]) :
                        j \in {n \in 1..Len(mf) :
                                \E k \in 1..Len(dep_model.v.depends_on) :
                                    dep_model.v.depends_on[k] = mf[n].unique_id}}
              ELSE {}) \cup DepUrns_TwoHops(cfg, mf, model, i + 1)

RECURSIVE DepUrns(_, _, _, _)
\* inner loop of _fetch_all_governance_statuses over model.depends_on
DepUrns(cfg, mf, model, i) ==
    IF i > Len(model.depends_on) THEN {}
    ELSE LET dep_model == get_model(mf, model.depends_on[i])
         IN  (IF IsSome(dep_model)
              THEN {model_to_urn(EngineMapper(cfg), dep_model.v)}
              ELSE {}) \cup DepUrns(cfg, mf, model, i + 1)

RECURSIVE UrnsToFetchFrom(_, _, _, _)
UrnsToFetchFrom(cfg, mf, models, i) ==
    IF i > Len(models) THEN {}
    ELSE {model_to_urn(EngineMapper(cfg), models[i])}
            \cup DepUrns(cfg, mf, models[i], 1)
            \cup UrnsToFetchFrom(cfg, mf, models, i + 1)

\* A slip of _fetch_all_governance_statuses: the dependencies are left out.
UrnsToFetch_ModelsOnly(cfg, mf, models) ==
    {model_to_urn(EngineMapper(cfg), models[i]) : i \in 1..Len(models)}

\* GovernanceEngine._fetch_all_governance_statuses: the set urns_to_fetch
UrnsToFetch(cfg, mf, models) ==
    UrnsToFetchFrom(cfg, mf, models, 1)

\* the forced outcome of the `except Exception as e` branch
ErrorOutcome(rule, model, error) ==
    [rule_name |-> rule.rule_name, model_name |-> model.name,
     model_unique_id |-> model.unique_id, passed |-> FALSE,
     severity |-> "error", message |-> MsgRuleExecutionError \o error,
     details |-> [error |-> error]]

\* A slip of the try/except: the forced outcome keeps the rule's severity.
RunRule_KeepSeverity(rule, model, status, mf, statuses) ==
    LET got == RuleValidate(rule, model, status, mf, statuses)
    IN  IF got.raised
        THEN [ErrorOutcome(rule, model, got.error) EXCEPT
                !.severity = rule.severity]
        ELSE got.result

\* the try/except around rule.validate in validate / validate_single_model:
\* the outcome handed to report.add_result
RunRule(rule, model, status, mf, statuses) ==
    LET got == RuleValidate(rule, model, status, mf, statuses)
    IN  IF got.raised THEN ErrorOutcome(rule, model, got.error)
        ELSE got.result

\* A slip of the lookup outcome: it is reported as a warning.
LookupOutcome_Warning(model_name) ==
    [rule_name |-> "model_lookup", model_name |-> model_name,
     model_unique_id |-> "", passed |-> FALSE, severity |-> "warning",
     message |-> MsgModelNotFound \o model_name, details |-> <<>>]

\* the synthetic outcome of validate_single_model for an unknown name
LookupOutcome(model_name) ==
    [rule_name |-> "model_lookup", model_name |-> model_name,
     model_unique_id |-> "", passed |-> FALSE, severity |-> "error",
     message |-> MsgModelNotFound \o model_name, details |-> <<>>]

-----------------------------------------------------------------------------
(* The inputs the model draws from.                                        *)

ColInfo(description, meta) ==
    [description |-> description, meta |-> meta]

Column(name, info) ==
    [name |-> name, info |-> info]

ModelA ==
    [unique_id |-> "model.a", name |-> <<"s","t","g","_","a">>,
     database |-> Some(<<"d","b">>), schema |-> <<"s","c">>,
     description |-> Some(<<"d">>), path |-> <<"s","/","a">>,
     depends_on |-> <<>>, tags |-> << <<"P","I","I">> >>,
     columns |-> << Column(<<"e","m","a","i","l">>,
                           ColInfo(Some(<<"e">>), Some([pii |-> FALSE]))) >>,
     config |-> [materialized |-> Some(<<"v","i","e","w">>)]]

ModelB ==
    [unique_id |-> "model.b", name |-> <<"d","i","m","_","b">>,
     database |-> None, schema |-> <<"s","c">>,
     description |-> None, path |-> <<"m","/","b">>,
     depends_on |-> <<"model.a", "model.a", "source.x">>, tags |-> <<>>,
     columns |-> <<>>,
     config |-> [materialized |-> Absent]]

ModelC ==
    [unique_id |-> "model.c", name |-> <<"D","I","M","_","B">>,
     database |-> None, schema |-> <<"s","c">>,
     description |-> Some(<<" ">>), path |-> <<"m","/","c">>,
     depends_on |-> <<"model.c", "model.b">>, tags |-> <<>>,
     columns |-> << Column(<<"i","d">>, ColInfo(None, None)) >>,
     config |-> [materialized |-> None]]

ModelD ==
    [unique_id |-> "model.d", name |-> <<"s","t","g","_","a">>,
     database |-> Some(<<"d","b">>), schema |-> <<"s","c">>,
     description |-> Some(<<>>), path |-> <<"x","/","d">>,
     depends_on |-> <<"model.c">>, tags |-> <<>>,
     columns |-> << Column(<<"i","d">>, ColInfo(Absent, Absent)) >>,
     config |-> [materialized |-> Some(<<>>)]]

ModelPool ==
    {ModelA, ModelB, ModelC, ModelD}

\* manifests: up to MaxModels models with distinct unique_ids, in any order
Manifests ==
    UNION {ListsOf(S) : S \in {T \in SUBSET ModelPool : Cardinality(T) <= MaxModels}}

GhostName ==
    <<"g","h","o","s","t">>

LookupNames ==
    {m.name : m \in ModelPool} \cup {GhostName}

RuleCfg(name, enabled, severity) ==
    [name |-> name, enabled |-> enabled, severity |-> severity,
     config |-> [max_dependencies |-> Absent]]

\* config.rules, in dict order
RuleConfigs ==
    { << RuleCfg("require_owner", TRUE, "error"),
         RuleCfg("require_column_descriptions", TRUE, "warning") >>,
      << RuleCfg("require_pii_tag", TRUE, "info"),
         RuleCfg("not_a_rule", TRUE, "error"),
         RuleCfg("require_domain", FALSE, "warning"),
         RuleCfg("no_deprecated_upstream", TRUE, "error"),
         RuleCfg("upstream_must_have_owner", TRUE, "warning") >>,
      << RuleCfg("require_description", FALSE, "error") >> }

\* (include_patterns, exclude_patterns)
PatternConfigs ==
    { << << <<"*">> >>, <<>> >>,
      << << <<"*">> >>, << <<"s","t","g","_","*">> >> >>,
      << << <<"s","t","g","_","*">>, <<"m","/","*">> >>,
         << <<"?","I","M","_","*">>, <<"[","!","s","m","]","*">> >> >>,
      << <<>>, << <<"x","/","*">> >> >> }

\* (target_platform, platform_instance)
PlatformConfigs ==
    { <<Snowflake, None>>, <<Trino, Some(<<"i">>)>>, <<Postgres, None>> }

Configs ==
    {[rules |-> r, target_platform |-> p[1], environment |-> EnvProd,
      platform_instance |-> p[2], fail_on_warnings |-> FALSE,
      include_patterns |-> pt[1], exclude_patterns |-> pt[2]] :
        r \in RuleConfigs, p \in PlatformConfigs, pt \in PatternConfigs}

\* statuses as get_governance_status builds them for a dataset that exists
StatusOwned(urn) ==
    [StatusNotExists(urn) EXCEPT !.exists = TRUE, !.has_owner = TRUE,
        !.owners = << <<"u">> >>]

StatusDeprecated(urn) ==
    [StatusNotExists(urn) EXCEPT !.exists = TRUE, !.is_deprecated = TRUE,
        !.deprecation_note = Some(<<"n">>)]

PoolUrn(cfg, m) ==
    model_to_urn(EngineMapper(cfg), m)

\* catalog contents and failing identifiers, for the engine's mapper
Catalogs(cfg) ==
    LET a == PoolUrn(cfg, ModelA)
        b == PoolUrn(cfg, ModelB)
        c == PoolUrn(cfg, ModelC)
    IN  { [cat |-> <<>>, failing |-> {}],
          [cat |-> [u \in {a, b, c} |->
                      IF u = a THEN StatusOwned(u) ELSE StatusDeprecated(u)],
           failing |-> {}],
          [cat |-> [u \in {a, c} |->
                      IF u = a THEN StatusDeprecated(u) ELSE StatusOwned(u)],
           failing |-> {b}] }

-----------------------------------------------------------------------------
(* The engine as a state machine.  One validate() or                       *)
(* validate_single_model() call runs at a time (the code is synchronous):  *)
(* Begin does the selection and the fetches, each EvalRule step is one     *)
(* pass of the rule loop body, Return hands the report to the caller.      *)

Resting ==
    {"idle", "validate_done", "single_done", "single_raised"}

RuleVarsIdle ==
    /\ rule_in = None
    /\ rule_out = None

BatchVarsIdle ==
    /\ batch_in = <<>>
    /\ batch_out = None

CallVarsIdle ==
    /\ call_in = None
    /\ call_out = None

EngineVarsIdle ==
    /\ pc = "idle"
    /\ report = NewReport
    /\ report_ref = 1
    /\ kept = <<>>
    /\ models_to_validate = <<>>
    /\ all_statuses = <<>>
    /\ arg = None
    /\ cur_status = None
    /\ mi = 1
    /\ ri = 1
    /\ calls = <<>>
    /\ evals = <<>>

\* GovernanceEngine.__init__ on a parsed manifest, a configuration and a client
Init ==
    /\ manifest \in Manifests
    /\ config \in Configs
    /\ rules = _initialize_rules(config)
    /\ \E c \in Catalogs(config) :
        /\ provider = c.cat
        /\ raises = c.failing
    /\ EngineVarsIdle
    /\ CallVarsIdle
    /\ RuleVarsIdle
    /\ BatchVarsIdle

\* position after one pass of the inner loop body
NextPosition ==
    IF ri < Len(rules) THEN <<mi, ri + 1>> ELSE <<mi + 1, 1>>

\* A slip of the report's construction: the engine clears and reuses the
\* report object of its previous call.
FreshRef_Reuse ==
    report_ref

\* `report = ValidationReport()`: a new object, distinct from every report
\* that is still held
FreshRef ==
    CHOOSE n \in 1..(Len(kept) + 1) :
        /\ \A i \in 1..Len(kept) : kept[i].ref # n
        /\ \A m \in 1..(n - 1) : \E i \in 1..Len(kept) : kept[i].ref = m

\* validate(), up to the rule loops: selection, total_models_checked, batch fetch
ValidateBegin ==
    /\ pc \in Resting
    /\ LET selected == SelectSeq(manifest,
                            LAMBDA m : _should_include_model(config, m))
       IN  /\ models_to_validate' = selected
           /\ report' = [NewReport EXCEPT
                            !.total_models_checked = Len(selected)]
           /\ \E urn_list \in ListsOf(UrnsToFetch(config, manifest, selected)) :
                /\ calls' = <<[op |-> "batch", urns |-> urn_list]>>
                /\ all_statuses' =
                        get_governance_status_batch(provider, raises, urn_list)
    /\ arg' = None
    /\ cur_status' = None
    /\ mi' = 1
    /\ ri' = 1
    /\ evals' = <<>>
    /\ pc' = "validate"
    /\ UNCHANGED <<manifest, config, rules, provider, raises, rule_in,
                   rule_out, batch_in, batch_out,
                   call_in, call_out,
                   kept>>
    /\ report_ref' = FreshRef

\* validate(): one (model, rule) pass of the loops
ValidateEvalRule ==
    /\ pc = "validate"
    /\ mi <= Len(models_to_validate)
    /\ ri <= Len(rules)
    /\ LET model == models_to_validate[mi]
           rule == rules[ri]
           urn == model_to_urn(EngineMapper(config), model)
           status == DictGet(all_statuses, urn, StatusNotExists(urn))
       IN  /\ \E result \in {RunRule(rule, model, status, manifest,
                                      all_statuses)} :
                    report' = add_result(report, result)
           /\ evals' = Append(evals, [rule |-> rule.rule_name,
                                      model |-> model.unique_id])
    /\ mi' = NextPosition[1]
    /\ ri' = NextPosition[2]
    /\ UNCHANGED <<pc, manifest, config, rules, provider, raises,
                   models_to_validate, all_statuses, arg, cur_status, calls,
                   rule_in, rule_out, batch_in, batch_out,
                   call_in, call_out,
                   report_ref, kept>>

\* validate(): `return report`
ValidateReturn ==
    /\ pc = "validate"
    /\ mi > Len(models_to_validate) \/ rules = <<>>
    /\ pc' = "validate_done"
    /\ UNCHANGED <<report, manifest, config, rules, provider, raises,
                   models_to_validate, all_statuses, arg, cur_status, mi, ri,
                   calls,
                   evals, rule_in, rule_out, batch_in, batch_out,
                   call_in, call_out,
                   report_ref, kept>>

RECURSIVE SingleFetchList(_, _, _, _)
\* the identifiers validate_single_model fetches after the model's own, in order
SingleFetchList(cfg, mf, model, i) ==
    IF i > Len(model.depends_on) THEN <<>>
    ELSE LET dep_model == get_model(mf, model.depends_on[i])
         IN  (IF IsSome(dep_model)
              THEN <<model_to_urn(EngineMapper(cfg), dep_model.v)>>
              ELSE <<>>) \o SingleFetchList(cfg, mf, model, i + 1)

RECURSIVE SingleStatuses(_, _, _, _, _)
\* all_statuses after fetching fetch_list[i..] one by one
SingleStatuses(cat, failing, fetch_list, i, statuses) ==
    IF i > Len(fetch_list) THEN statuses
    ELSE SingleStatuses(cat, failing, fetch_list, i + 1,
            DictSet(statuses, fetch_list[i],
                    get_governance_status(cat, failing, fetch_list[i]).result))

\* A slip of validate_single_model: the dependencies' statuses are left out.
SingleAllStatuses_ModelOnly(cat, failing, fetch_list) ==
    SingleStatuses(cat, failing, <<fetch_list[1]>>, 1, <<>>)

\* validate_single_model: all_statuses after the individual fetches
SingleAllStatuses(cat, failing, fetch_list) ==
    SingleStatuses(cat, failing, fetch_list, 1, <<>>)

\* validate_single_model(model_name), up to the rule loop
SingleBegin(model_name) ==
    /\ pc \in Resting
    /\ LET found == get_model_by_name(manifest, model_name)
       IN  IF ~IsSome(found) THEN
                /\ report' = add_result(NewReport, LookupOutcome(model_name))
                /\ models_to_validate' = <<>>
                /\ all_statuses' = <<>>
                /\ cur_status' = None
                /\ calls' = <<>>
                /\ pc' = "single_done"
           ELSE
                LET model == found.v
                    urn == model_to_urn(EngineMapper(config), model)
                    fetch_list == <<urn>> \o
                                  SingleFetchList(config, manifest, model, 1)
                    bad == {k \in 1..Len(fetch_list) :
                                get_governance_status(provider, raises,
                                                      fetch_list[k]).raised}
                    made == IF bad = {} THEN Len(fetch_list)
                            ELSE CHOOSE k \in bad : \A j \in bad : k <= j
                IN  /\ report' = [NewReport EXCEPT !.total_models_checked = 1]
                    /\ models_to_validate' = <<model>>
                    /\ calls' = [k \in 1..made |->
                                    [op |-> "single", urn |-> fetch_list[k]]]
                    /\ IF bad = {} THEN
                            /\ cur_status' = Some(get_governance_status(
                                                provider, raises, urn).result)
                            /\ all_statuses' = SingleAllStatuses(provider,
                                                    raises, fetch_list)
                            /\ pc' = "single"
                       ELSE
                            /\ cur_status' = None
                            /\ all_statuses' = <<>>
                            /\ pc' = "single_raised"
    /\ arg' = Some(model_name)
    /\ mi' = 1
    /\ ri' = 1
    /\ evals' = <<>>
    /\ UNCHANGED <<manifest, config, rules, provider, raises, rule_in,
                   rule_out, batch_in, batch_out,
                   call_in, call_out,
                   kept>>
    /\ report_ref' = FreshRef

\* validate_single_model(): one pass of the rule loop
SingleEvalRule ==
    /\ pc = "single"
    /\ ri <= Len(rules)
    /\ LET model == models_to_validate[1]
           rule == rules[ri]
       IN  /\ \E result \in {RunRule(rule, model, cur_status.v, manifest,
                                      all_statuses)} :
                    report' = add_result(report, result)
           /\ evals' = Append(evals, [rule |-> rule.rule_name,
                                      model |-> model.unique_id])
    /\ ri' = ri + 1
    /\ UNCHANGED <<pc, manifest, config, rules, provider, raises,
                   models_to_validate, all_statuses, arg, cur_status, mi, calls,
                   rule_in, rule_out, batch_in, batch_out,
                   call_in, call_out,
                   report_ref, kept>>

\* validate_single_model(): `return report`
SingleReturn ==
    /\ pc = "single"
    /\ ri > Len(rules)
    /\ pc' = "single_done"
    /\ UNCHANGED <<report, manifest, config, rules, provider, raises,
                   models_to_validate, all_statuses, arg, cur_status, mi, ri,
                   calls,
                   evals, rule_in, rule_out, batch_in, batch_out,
                   call_in, call_out,
                   report_ref, kept>>

SingleBeginAny ==
    \E model_name \in LookupNames : SingleBegin(model_name)

\* constants.py
EXIT_SUCCESS ==
    0

EXIT_VALIDATION_FAILED ==
    1

EXIT_RUNTIME_ERROR ==
    2

\* A slip of the exit code: warnings fail the command whatever the flag.
validate_exit_code_IgnoreFlag(rep, fail_on_warnings) ==
    IF has_errors(rep) \/ has_warnings(rep) THEN EXIT_VALIDATION_FAILED
    ELSE EXIT_SUCCESS

\* cli.py validate: "Determine exit code"
validate_exit_code(rep, fail_on_warnings) ==
    IF has_errors(rep) THEN EXIT_VALIDATION_FAILED
    ELSE IF fail_on_warnings /\ has_warnings(rep) THEN EXIT_VALIDATION_FAILED
    ELSE EXIT_SUCCESS

\* cli.py validate, after the engine call: the --fail-on-warnings flag turns
\* config.fail_on_warnings on (the engine does not read it), the report
\* decides the exit code, and an exception of the engine call ends the command
\* with EXIT_RUNTIME_ERROR
CommandExit ==
    /\ pc \in {"validate_done", "single_done", "single_raised"}
    /\ \E flag \in BOOLEAN :
        LET fail_on_warnings == config.fail_on_warnings \/ flag
        IN  /\ call_in' = Some([op |-> "validate",
                                fail_on_warnings |-> fail_on_warnings,
                                raised |-> (pc = "single_raised")])
            /\ call_out' = Some(IF pc = "single_raised" THEN EXIT_RUNTIME_ERROR
                                ELSE validate_exit_code(report, fail_on_warnings))
    /\ pc' = "exited"
    /\ UNCHANGED <<report, manifest, config, rules, provider, raises,
                   models_to_validate, all_statuses, arg, cur_status, mi, ri,
                   calls, evals, rule_in, rule_out, batch_in, batch_out,
                   report_ref, kept>>

Next ==
    \/ ValidateBegin
    \/ ValidateEvalRule
    \/ ValidateReturn
    \/ SingleBeginAny
    \/ SingleEvalRule
    \/ SingleReturn
    \/ CommandExit

Spec ==
    Init /\ [][Next]_vars

-----------------------------------------------------------------------------
(* Repeated validate() calls on one engine, by a caller that holds on to   *)
(* reports it was given, while the catalog's contents change between       *)
(* calls.                                                                  *)

\* the caller keeps the report validate() has just returned
KeepReport ==
    /\ pc = "validate_done"
    /\ Len(kept) < MaxKept
    /\ \A i \in 1..Len(kept) : kept[i].ref # report_ref
    /\ kept' = Append(kept, [ref |-> report_ref, report |-> report])
    /\ UNCHANGED <<report, pc, manifest, config, rules, provider, raises,
                   models_to_validate, all_statuses, arg, cur_status, mi, ri,
                   calls, evals, rule_in, rule_out, batch_in, batch_out,
                   call_in, call_out, report_ref>>

\* between two calls, the catalog comes to hold other data
ProviderChange ==
    /\ pc \in Resting
    /\ \E c \in Catalogs(config) :
        /\ c.cat # provider \/ c.failing # raises
        /\ provider' = c.cat
        /\ raises' = c.failing
    /\ pc' = "idle"
    /\ UNCHANGED <<report, manifest, config, rules, models_to_validate,
                   all_statuses, arg, cur_status, mi, ri, calls, evals,
                   rule_in, rule_out, batch_in, batch_out, call_in, call_out,
                   report_ref, kept>>

InitRuns ==
    /\ manifest = <<ModelA, ModelB>>
    /\ config \in {c \in Configs :
                    /\ c.target_platform = Snowflake
                    /\ c.include_patterns = << <<"*">> >>
                    /\ c.exclude_patterns = <<>>}
    /\ rules = _initialize_rules(config)
    /\ \E c \in Catalogs(config) :
        /\ provider = c.cat
        /\ raises = c.failing
    /\ EngineVarsIdle
    /\ CallVarsIdle
    /\ RuleVarsIdle
    /\ BatchVarsIdle

NextRuns ==
    \/ ValidateBegin
    \/ ValidateEvalRule
    \/ ValidateReturn
    \/ KeepReport
    \/ ProviderChange

SpecRuns ==
    InitRuns /\ [][NextRuns]_vars

-----------------------------------------------------------------------------
(* A report on its own: any sequence of add_result calls.                  *)

EngineAbsent ==
    /\ manifest = <<>>
    /\ config = None
    /\ rules = <<>>
    /\ provider = <<>>
    /\ raises = {}

\* outcomes a caller may add
Outcomes ==
    [rule_name : {"test"}, model_name : {<<"m">>},
     model_unique_id : {"model.a", "model.b"}, passed : BOOLEAN,
     severity : Severities, message : {<<>>}, details : {<<>>}]

InitReport ==
    /\ EngineAbsent
    /\ EngineVarsIdle
    /\ CallVarsIdle
    /\ RuleVarsIdle
    /\ BatchVarsIdle

\* report.add_result(result)
AddResult ==
    /\ Len(report.results) < MaxAdds
    /\ \E result \in Outcomes :
            /\ report' = add_result(report, result)
            /\ call_in' = Some(result)
    /\ UNCHANGED <<pc, manifest, config, rules, provider, raises,
                   models_to_validate, all_statuses, arg, cur_status, mi, ri,
                   calls, evals, rule_in, rule_out, batch_in, batch_out,
                   call_out,
                   report_ref, kept>>

NextReport ==
    AddResult

SpecReport ==
    InitReport /\ [][NextReport]_vars

-----------------------------------------------------------------------------
(* One rule evaluation on its own: rule.validate(model, status, manifest,  *)
(* all_statuses) for any built-in rule and well-formed inputs.             *)

SampleMapper ==
    UrnMapper(Snowflake, EnvProd, None, None, None)

FullManifest ==
    <<ModelA, ModelB, ModelC, ModelD>>

\* models with as many direct dependencies as the default limit, and one more
ModelAtLimit ==
    [ModelB EXCEPT !.unique_id = "model.e",
        !.depends_on = [i \in 1..DefaultMaxDependencies |-> "source.x"]]

ModelOverLimit ==
    [ModelB EXCEPT !.unique_id = "model.f",
        !.depends_on = [i \in 1..(DefaultMaxDependencies + 1) |->
                            IF i = 1 THEN "model.a" ELSE "source.x"]]

\* the models a rule is evaluated on
RuleModels ==
    ModelPool \cup {ModelAtLimit, ModelOverLimit}

\* rule objects: every registered class, constructed from a GovernanceRule
RuleSamples ==
    {[rule_name |-> n, severity |-> sv, config |-> [max_dependencies |-> md]] :
        n \in RULE_REGISTRY, sv \in {"error", "warning"},
        md \in {Absent, Some(0), Some(2)}}

\* DatasetGovernanceStatus values, the raw fields of a non-existent one included
StatusSamples(urn) ==
    { StatusNotExists(urn),
      [StatusOwned(urn) EXCEPT !.exists = FALSE, !.has_description = TRUE,
          !.has_domain = TRUE, !.has_tags = TRUE, !.is_deprecated = TRUE],
      StatusOwned(urn),
      StatusDeprecated(urn),
      [StatusNotExists(urn) EXCEPT !.exists = TRUE, !.has_description = TRUE,
          !.description = Some(<<"t">>), !.has_domain = TRUE,
          !.has_tags = TRUE, !.tags = << <<"t">> >>] }

\* all_statuses dicts
StatusMapSamples ==
    { <<>>,
      << [urn |-> model_to_urn(SampleMapper, ModelA),
          status |-> StatusDeprecated(model_to_urn(SampleMapper, ModelA))],
         [urn |-> model_to_urn(SampleMapper, ModelB),
          status |-> StatusOwned(model_to_urn(SampleMapper, ModelB))] >>,
      << [urn |-> model_to_urn(SampleMapper, ModelA),
          status |-> [StatusDeprecated(model_to_urn(SampleMapper, ModelA))
                        EXCEPT !.exists = FALSE]],
         [urn |-> model_to_urn(SampleMapper, ModelB),
          status |-> StatusDeprecated(model_to_urn(SampleMapper, ModelB))] >> }

InitRules ==
    /\ manifest = FullManifest
    /\ config = None
    /\ rules = <<>>
    /\ provider = <<>>
    /\ raises = {}
    /\ EngineVarsIdle
    /\ CallVarsIdle
    /\ BatchVarsIdle
    /\ rule_out = None
    /\ \E rule \in RuleSamples, model \in RuleModels, statuses \in StatusMapSamples :
        \E status \in StatusSamples(model_to_urn(SampleMapper, model)) :
            rule_in = Some([rule |-> rule, model |-> model, status |-> status,
                            statuses |-> statuses])

\* rule.validate(model, status, manifest, all_statuses)
RuleCall ==
    /\ rule_out = None
    /\ rule_out' = Some(RuleValidate(rule_in.v.rule, rule_in.v.model,
                            rule_in.v.status, manifest, rule_in.v.statuses))
    /\ UNCHANGED <<report, pc, manifest, config, rules, provider, raises,
                   models_to_validate, all_statuses, arg, cur_status, mi, ri,
                   calls, evals, rule_in, batch_in, batch_out,
                   call_in, call_out,
                   report_ref, kept>>

NextRules ==
    RuleCall

SpecRules ==
    InitRules /\ [][NextRules]_vars

-----------------------------------------------------------------------------
(* One get_governance_status_batch call on its own.                        *)

BatchUrns ==
    {model_to_urn(SampleMapper, ModelA), model_to_urn(SampleMapper, ModelB),
     model_to_urn(SampleMapper, ModelD) \o <<"x">>}

\* dataset_urns arguments: lists of up to MaxBatch identifiers, repeats allowed
BatchInputs ==
    UNION {[1..n -> BatchUrns] : n \in 0..MaxBatch}

InitBatch ==
    /\ manifest = <<>>
    /\ config = None
    /\ rules = <<>>
    /\ provider = [u \in {model_to_urn(SampleMapper, ModelA),
                          model_to_urn(SampleMapper, ModelB)} |->
                     IF u = model_to_urn(SampleMapper, ModelA)
                     THEN StatusOwned(u) ELSE StatusDeprecated(u)]
    /\ raises \in {{}, {model_to_urn(SampleMapper, ModelA)},
                   {model_to_urn(SampleMapper, ModelB),
                    model_to_urn(SampleMapper, ModelD) \o <<"x">>}}
    /\ EngineVarsIdle
    /\ CallVarsIdle
    /\ RuleVarsIdle
    /\ batch_in \in BatchInputs
    /\ batch_out = None

\* client.get_governance_status_batch(dataset_urns)
BatchCall ==
    /\ batch_out = None
    /\ batch_out' = Some(get_governance_status_batch(provider, raises, batch_in))
    /\ UNCHANGED <<report, pc, manifest, config, rules, provider, raises,
                   models_to_validate, all_statuses, arg, cur_status, mi, ri,
                   calls, evals, rule_in, rule_out, batch_in,
                   call_in, call_out,
                   report_ref, kept>>

NextBatch ==
    BatchCall

SpecBatch ==
    InitBatch /\ [][NextBatch]_vars

-----------------------------------------------------------------------------
\* C1: after every add_result call, errors + warnings + passed equals
\* total_checks, for outcomes of any pass/fail value and any severity.
ReportCountersAddUp ==
    report.errors + report.warnings + report.passed = report.total_checks

\* the report holds a failing INFO outcome that no counter counts
FailingInfoAdded ==
    \E k \in 1..Len(report.results) :
        ~report.results[k].passed /\ report.results[k].severity = "info"

-----------------------------------------------------------------------------
(* Notions the engine claims are stated with, read off the configuration   *)
(* and the manifest rather than off the engine's working variables.        *)

InValidate ==
    pc \in {"validate", "validate_done"}

\* model m matches glob pattern p by name or by file path
MatchesPattern(m, p) ==
    fnmatch(m.name, p) \/ fnmatch(m.path, p)

MatchesSomeExclude(m) ==
    \E i \in 1..Len(config.exclude_patterns) :
        MatchesPattern(m, config.exclude_patterns[i])

MatchesSomeInclude(m) ==
    \E i \in 1..Len(config.include_patterns) :
        MatchesPattern(m, config.include_patterns[i])

\* the models of the manifest that the filters let through, in manifest order
SelectedModels ==
    SelectSeq(manifest, LAMBDA m : ~MatchesSomeExclude(m) /\ MatchesSomeInclude(m))

\* the configured rules that are enabled and registered, in configuration order
EnabledRules ==
    SelectSeq(config.rules, LAMBDA rc : rc.enabled /\ rc.name \in RULE_REGISTRY)

\* the models of the manifest that model m directly depends on
ResolvedDeps(m) ==
    {d \in {manifest[i] : i \in 1..Len(manifest)} :
        \E j \in 1..Len(m.depends_on) : m.depends_on[j] = d.unique_id}

\* the (model, rule) pair of the k-th pass of validate()'s loops
PairModel(k) ==
    models_to_validate[((k - 1) \div Len(rules)) + 1]

PairRule(k) ==
    rules[((k - 1) % Len(rules)) + 1]

\* what the rule itself yields for the k-th pair of validate()
PairGot(k) ==
    LET urn == PoolUrn(config, PairModel(k))
    IN  RuleValidate(PairRule(k), PairModel(k),
                     DictGet(all_statuses, urn, StatusNotExists(urn)),
                     manifest, all_statuses)

\* C2: when a rule raises for one model, validate() still returns; every
\* other pair has the outcome its rule yields, and the broken pair has exactly
\* one outcome: failing, severity ERROR, the error text in message and details.
RuleIsolation ==
    pc = "validate_done" =>
        /\ Len(report.results) = Len(models_to_validate) * Len(rules)
        /\ \A k \in 1..Len(report.results) :
            LET r == report.results[k]
            IN  IF PairGot(k).raised
                THEN /\ r.rule_name = PairRule(k).rule_name
                     /\ r.model_unique_id = PairModel(k).unique_id
                     /\ ~r.passed
                     /\ r.severity = "error"
                     /\ StrContains(r.message, PairGot(k).error)
                     /\ r.details = [error |-> PairGot(k).error]
                ELSE r = PairGot(k).result

\* a returned report where a rule configured below ERROR raised for one pair
\* and a later pair was still evaluated normally
RuleIsolationWitness ==
    /\ pc = "validate_done"
    /\ \E k, j \in 1..Len(report.results) :
        /\ k < j
        /\ PairGot(k).raised
        /\ PairRule(k).severity # "error"
        /\ ~PairGot(j).raised

\* C3: a model is selected iff it matches no exclude pattern and at least
\* one include pattern (by name or path); total_models_checked is the number
\* of selected models and no outcome is about a model that was not selected.
SelectionFilter ==
    InValidate =>
        /\ models_to_validate = SelectedModels
        /\ report.total_models_checked = Len(SelectedModels)
        /\ \A k \in 1..Len(report.results) :
            \E i \in 1..Len(SelectedModels) :
                report.results[k].model_unique_id = SelectedModels[i].unique_id

\* a returned report with outcomes, where a model matching both an include
\* and an exclude pattern was left out
SelectionFilterWitness ==
    /\ pc = "validate_done"
    /\ report.results # <<>>
    /\ \E i \in 1..Len(manifest) :
        MatchesSomeInclude(manifest[i]) /\ MatchesSomeExclude(manifest[i])

\* C4: validate() appends one outcome per (selected model, enabled rule)
\* pair and nothing else: total_checks is the product, outcomes are grouped
\* by model in manifest order and, within a model, follow the rule order.
OneOutcomePerPairInOrder ==
    pc = "validate_done" =>
        LET nr == Len(EnabledRules)
        IN  /\ report.total_checks = Len(SelectedModels) * nr
            /\ Len(report.results) = Len(SelectedModels) * nr
            /\ \A k \in 1..Len(report.results) :
                /\ report.results[k].model_unique_id =
                        SelectedModels[((k - 1) \div nr) + 1].unique_id
                /\ report.results[k].rule_name =
                        EnabledRules[((k - 1) % nr) + 1].name

\* a returned report over two models and several rules, from a configuration
\* that also names a disabled rule
OneOutcomePerPairWitness ==
    /\ pc = "validate_done"
    /\ Len(SelectedModels) >= 2
    /\ Len(EnabledRules) >= 2
    /\ \E i \in 1..Len(config.rules) : ~config.rules[i].enabled

\* the identifiers a validate() run needs: selected models and their direct
\* dependencies that resolve in the manifest
NeededUrns ==
    LET sel == {SelectedModels[i] : i \in 1..Len(SelectedModels)}
    IN  {PoolUrn(config, m) : m \in sel}
            \cup {PoolUrn(config, d) : d \in UNION {ResolvedDeps(m) : m \in sel}}

\* C5: a validate() run makes exactly one batch call, before any rule is
\* evaluated, for the deduplicated identifiers of the selected models and of
\* their resolving direct dependencies, and no other fetch.
OneBatchFetch ==
    InValidate =>
        /\ Len(calls) = 1
        /\ calls[1].op = "batch"
        /\ {calls[1].urns[i] : i \in 1..Len(calls[1].urns)} = NeededUrns
        /\ Len(calls[1].urns) = Cardinality(NeededUrns)

\* the batch call has been made and no rule evaluated yet; a selected model
\* has a dependency that is not selected, one that does not resolve, and one
\* named twice
OneBatchFetchWitness ==
    /\ pc = "validate"
    /\ evals = <<>>
    /\ \E i \in 1..Len(SelectedModels) :
        LET m == SelectedModels[i]
        IN  /\ \E d \in ResolvedDeps(m) :
                \A j \in 1..Len(SelectedModels) : SelectedModels[j] # d
            /\ \E j \in 1..Len(m.depends_on) :
                ~IsSome(get_model(manifest, m.depends_on[j]))
            /\ \E j, l \in 1..Len(m.depends_on) :
                j # l /\ m.depends_on[j] = m.depends_on[l]

\* validate_single_model was called with a name no model of the manifest has
UnknownNameAsked ==
    /\ pc \in {"single", "single_done", "single_raised"}
    /\ \A i \in 1..Len(manifest) : manifest[i].name # arg.v

\* validate_single_model was called with the name of a model, and returned
KnownNameReturned ==
    /\ pc = "single_done"
    /\ \E i \in 1..Len(manifest) : manifest[i].name = arg.v

\* C6: validate_single_model on a name no model has does not raise and
\* returns a report with has_errors, total_models_checked = 0 and exactly one
\* outcome: rule_name "model_lookup", failing, severity ERROR; no rule is
\* evaluated and no status is fetched.
UnknownNameReport ==
    UnknownNameAsked =>
        /\ pc = "single_done"
        /\ has_errors(report)
        /\ report.total_models_checked = 0
        /\ Len(report.results) = 1
        /\ report.results[1].rule_name = "model_lookup"
        /\ ~report.results[1].passed
        /\ report.results[1].severity = "error"
        /\ evals = <<>>
        /\ calls = <<>>

\* an unknown name was asked of an engine that has models and rules
UnknownNameWitness ==
    /\ UnknownNameAsked
    /\ manifest # <<>>
    /\ rules # <<>>

\* the model validate_single_model(arg) is about: the first one of that name
AskedModel ==
    manifest[CHOOSE i \in 1..Len(manifest) :
                /\ manifest[i].name = arg.v
                /\ \A j \in 1..(i - 1) : manifest[j].name # arg.v]

\* the identifiers validate_single_model needs: the model's and those of its
\* direct dependencies that resolve in the manifest
SingleNeededUrns ==
    {PoolUrn(config, AskedModel)}
        \cup {PoolUrn(config, d) : d \in ResolvedDeps(AskedModel)}

\* C7: validate_single_model on a known name returns a report with
\* total_models_checked = 1 and one outcome per enabled rule, in rule order,
\* all about that model; the status map handed to the rules holds the
\* individually fetched status of the model and of each resolving direct
\* dependency, and nothing else.
KnownNameReport ==
    KnownNameReturned =>
        /\ report.total_models_checked = 1
        /\ Len(report.results) = Len(EnabledRules)
        /\ \A k \in 1..Len(report.results) :
            /\ report.results[k].rule_name = EnabledRules[k].name
            /\ report.results[k].model_unique_id = AskedModel.unique_id
            /\ report.results[k].model_name = arg.v
        /\ DictKeys(all_statuses) = SingleNeededUrns
        /\ Len(all_statuses) = Cardinality(SingleNeededUrns)
        /\ \A i \in 1..Len(all_statuses) :
            all_statuses[i].status =
                get_governance_status(provider, raises, all_statuses[i].urn).result
        /\ \A c \in 1..Len(calls) :
            calls[c].op = "single" /\ calls[c].urn \in SingleNeededUrns

\* a report returned for a model with a resolving dependency, a dangling one
\* and at least two enabled rules
KnownNameWitness ==
    /\ KnownNameReturned
    /\ Len(EnabledRules) >= 2
    /\ ResolvedDeps(AskedModel) # {}
    /\ PoolUrn(config, AskedModel) \notin
            {PoolUrn(config, d) : d \in ResolvedDeps(AskedModel)}
    /\ \E j \in 1..Len(AskedModel.depends_on) :
        ~IsSome(get_model(manifest, AskedModel.depends_on[j]))

\* C8: get_governance_status_batch returns exactly one entry per input
\* identifier; an identifier whose fetch fails is mapped to exists = false
\* and the others are still fetched.
BatchOneEntryPerUrn ==
    IsSome(batch_out) =>
        LET out == batch_out.v
        IN  /\ DictKeys(out) = {batch_in[i] : i \in 1..Len(batch_in)}
            /\ \A i, j \in 1..Len(out) : out[i].urn = out[j].urn => i = j
            /\ \A i \in 1..Len(out) :
                IF out[i].urn \in raises
                THEN out[i].status = StatusNotExists(out[i].urn)
                ELSE out[i].status =
                        get_governance_status(provider, raises, out[i].urn).result

\* a batch where a fetch failed and a later identifier was fetched and exists
BatchWitness ==
    /\ IsSome(batch_out)
    /\ \E i, j \in 1..Len(batch_in) :
        /\ i < j
        /\ batch_in[i] \in raises
        /\ batch_in[j] \notin raises
        /\ DictGet(batch_out.v, batch_in[j], StatusNotExists(<<>>)).exists

\* C9: every built-in rule's validate returns one outcome and does not
\* raise, for any model the data model allows (a column's description or
\* metadata may be absent), any status, any graph and any status map.
RulesNeverRaise ==
    IsSome(rule_out) => ~rule_out.v.raised

\* C10: require_owner passes iff the status has exists and has_owner; with
\* exists = false the failing message contains "not found", and with an
\* existing status without owner the failing message reports the missing owner.
RequireOwnerPolicy ==
    (IsSome(rule_out) /\ rule_in.v.rule.rule_name = "require_owner") =>
        LET st == rule_in.v.status
            r == rule_out.v.result
        IN  /\ ~rule_out.v.raised
            /\ r.passed = (st.exists /\ st.has_owner)
            /\ ~st.exists => StrContains(r.message, NotFoundText)
            /\ (st.exists /\ ~st.has_owner) =>
                    /\ r.message = MsgNoOwner
                    /\ ~StrContains(r.message, NotFoundText)

\* require_owner evaluated on a status with exists = false whose raw has_owner
\* field is true
RequireOwnerWitness ==
    /\ IsSome(rule_out)
    /\ rule_in.v.rule.rule_name = "require_owner"
    /\ ~rule_in.v.status.exists
    /\ rule_in.v.status.has_owner
    /\ ~rule_out.v.result.passed

-----------------------------------------------------------------------------
(* Notions the rule claims are stated with.                                *)

\* one evaluation of the rule named n has returned
RuleReturned(n) ==
    /\ IsSome(rule_out)
    /\ rule_in.v.rule.rule_name = n
    /\ ~rule_out.v.raised

\* the text holds at least one character
NonEmptyText(x) ==
    IsSome(x) /\ Len(x.v) > 0

\* the text holds at least one character that is not white space
NonBlankText(x) ==
    IsSome(x) /\ \E i \in 1..Len(x.v) : x.v[i] # " "

\* what a status says once existence is taken into account: with
\* exists = false every other field counts as false
Effective(st, field) ==
    st.exists /\ st[field]

\* C11 as stated: require_description passes iff the model's manifest
\* description is non-empty or its status has a description; details.source
\* names the one that satisfied the rule, the manifest first.
RequireDescriptionNonEmpty ==
    RuleReturned("require_description") =>
        LET m == rule_in.v.model
            st == rule_in.v.status
            r == rule_out.v.result
        IN  /\ r.passed = (NonEmptyText(m.description)
                            \/ Effective(st, "has_description"))
            /\ (r.passed /\ NonEmptyText(m.description)) =>
                    r.details.source = "dbt"
            /\ (r.passed /\ ~NonEmptyText(m.description)) =>
                    r.details.source = "datahub"

\* C11: require_description passes iff the model's manifest description holds
\* a character other than white space or its status exists and has a
\* description; details.source is "dbt" when the manifest satisfied the rule
\* (also when both do) and "datahub" when only the status did.
RequireDescriptionPolicy ==
    (IsSome(rule_out) /\ rule_in.v.rule.rule_name = "require_description") =>
        LET m == rule_in.v.model
            st == rule_in.v.status
            r == rule_out.v.result
        IN  /\ ~rule_out.v.raised
            /\ r.passed = (NonBlankText(m.description)
                            \/ Effective(st, "has_description"))
            /\ (r.passed /\ NonBlankText(m.description)) =>
                    r.details.source = "dbt"
            /\ (r.passed /\ ~NonBlankText(m.description)) =>
                    r.details.source = "datahub"

\* require_description evaluated where both the manifest and the status carry
\* a description, and attributed to the manifest
RequireDescriptionWitness ==
    /\ RuleReturned("require_description")
    /\ NonBlankText(rule_in.v.model.description)
    /\ Effective(rule_in.v.status, "has_description")
    /\ rule_out.v.result.details.source = "dbt"

\* require_description failed on a description made of white space only
BlankDescriptionRejected ==
    /\ RuleReturned("require_description")
    /\ NonEmptyText(rule_in.v.model.description)
    /\ ~NonBlankText(rule_in.v.model.description)
    /\ ~rule_out.v.result.passed

\* text `sub` occurs in text s when letter case is ignored
OccursIgnoringCase(s, sub) ==
    \E i \in 0..(Len(s) - Len(sub)) :
        \A j \in 1..Len(sub) : CharLower(s[i + j]) = CharLower(sub[j])

\* the models of the graph that the direct dependency ids of m name
DirectDependencyModels(m) ==
    {d \in {manifest[k] : k \in 1..Len(manifest)} :
        \E i \in 1..Len(m.depends_on) : d.unique_id = m.depends_on[i]}

\* the entries of a status map whose identifier holds the name of d
StatusesNaming(d, statuses) ==
    {statuses[j] : j \in {k \in 1..Len(statuses) :
                            OccursIgnoringCase(statuses[k].urn, d.name)}}

\* (dependency model, status map entry) pairs with a deprecated status
DeprecatedPairs(m, statuses) ==
    {<<d, e>> \in DirectDependencyModels(m) \X
                  {statuses[j] : j \in 1..Len(statuses)} :
        /\ e \in StatusesNaming(d, statuses)
        /\ Effective(e.status, "is_deprecated")}

\* C12: no_deprecated_upstream fails iff some direct dependency id resolves in
\* the graph to a model whose name occurs, ignoring case, in the identifier of
\* a fetched status that is deprecated; on failure details.deprecated_upstreams
\* holds, for each such dependency and status, an entry with the dependency's
\* name and the status's deprecation note, and nothing else; otherwise the
\* rule passes.
NoDeprecatedUpstreamPolicy ==
    (IsSome(rule_out) /\ rule_in.v.rule.rule_name = "no_deprecated_upstream") =>
        LET m == rule_in.v.model
            pairs == DeprecatedPairs(m, rule_in.v.statuses)
            r == rule_out.v.result
        IN  /\ ~rule_out.v.raised
            /\ r.passed = (pairs = {})
            /\ ~r.passed =>
                LET ups == r.details.deprecated_upstreams
                IN  /\ \A pr \in pairs : \E k \in 1..Len(ups) :
                            /\ ups[k].name = pr[1].name
                            /\ ups[k].urn = pr[2].urn
                            /\ ups[k].note = pr[2].status.deprecation_note
                    /\ \A k \in 1..Len(ups) : \E pr \in pairs :
                            /\ ups[k].name = pr[1].name
                            /\ ups[k].urn = pr[2].urn
                            /\ ups[k].note = pr[2].status.deprecation_note

\* no_deprecated_upstream failed on a dependency whose lower-case name is found
\* in an upper-case identifier, the entry carrying the deprecation note
NoDeprecatedUpstreamWitness ==
    /\ RuleReturned("no_deprecated_upstream")
    /\ ~rule_out.v.result.passed
    /\ \E k \in 1..Len(rule_out.v.result.details.deprecated_upstreams) :
        LET up == rule_out.v.result.details.deprecated_upstreams[k]
        IN  /\ ~StrContains(up.urn, up.name)
            /\ IsSome(up.note)

\* (dependency model, status map entry) pairs whose status has no owner, a
\* status with exists = false having none
UnownedPairs(m, statuses) ==
    {<<d, e>> \in DirectDependencyModels(m) \X
                  {statuses[j] : j \in 1..Len(statuses)} :
        /\ e \in StatusesNaming(d, statuses)
        /\ ~Effective(e.status, "has_owner")}

\* C13: upstream_must_have_owner passes iff no direct dependency model's name
\* occurs, ignoring case, in the identifier of a fetched status that has no
\* owner, where a status with exists = false has no owner.
UpstreamMustHaveOwnerPolicy ==
    (IsSome(rule_out) /\ rule_in.v.rule.rule_name = "upstream_must_have_owner") =>
        /\ ~rule_out.v.raised
        /\ rule_out.v.result.passed =
                (UnownedPairs(rule_in.v.model, rule_in.v.statuses) = {})

\* upstream_must_have_owner passed although a direct dependency resolves to a
\* status with exists = false
MissingUpstreamPasses ==
    /\ RuleReturned("upstream_must_have_owner")
    /\ rule_out.v.result.passed
    /\ \E pr \in UnownedPairs(rule_in.v.model, rule_in.v.statuses) :
            ~pr[2].status.exists

\* statuses that differ from st only in raw fields that a status with
\* exists = false is not to be read for: st itself and every setting of the
\* five flags, each with its value field filled or not; an existing status
\* has no other
RawVariants(st) ==
    IF st.exists THEN {st}
    ELSE {st} \cup
         {[st EXCEPT !.has_owner = o, !.has_description = d,
                     !.has_domain = m, !.has_tags = t, !.is_deprecated = p,
                     !.owners = IF o THEN << <<"u">> >> ELSE <<>>,
                     !.description = IF d THEN Some(<<"x">>) ELSE None,
                     !.domain = IF m THEN Some(<<"d">>) ELSE None,
                     !.tags = IF t THEN << <<"t">> >> ELSE <<>>,
                     !.deprecation_note = IF p THEN Some(<<"n">>) ELSE None] :
            o \in BOOLEAN, d \in BOOLEAN, m \in BOOLEAN, t \in BOOLEAN,
            p \in BOOLEAN}

RECURSIVE RawMapVariants(_)
\* the status maps that differ from `statuses` only in such raw fields
RawMapVariants(statuses) ==
    IF statuses = <<>> THEN {<<>>}
    ELSE {<<[urn |-> statuses[1].urn, status |-> x]>> \o rest :
            x \in RawVariants(statuses[1].status),
            rest \in RawMapVariants(Tail(statuses))}

\* pass/fail of a rule evaluation: "raised", or whether the outcome passed
Verdict(out) ==
    IF out.raised THEN "raised" ELSE IF out.result.passed THEN "pass" ELSE "fail"

\* C14: for every built-in rule, model and status map, the pass/fail result is
\* the same for all inputs that differ only in the raw has_owner,
\* has_description, has_domain, has_tags, is_deprecated and owner, tag, domain,
\* description fields of statuses with exists = false.
RawFieldsOfMissingIgnored ==
    IsSome(rule_out) =>
        \A st \in RawVariants(rule_in.v.status) :
            \A sm \in RawMapVariants(rule_in.v.statuses) :
                Verdict(RuleValidate(rule_in.v.rule, rule_in.v.model, st,
                                     manifest, sm))
                    = Verdict(rule_out.v)

\* require_tags evaluated on a model without tags whose status has
\* exists = false and a raw has_tags of true, and failed
RawFieldsWitness ==
    /\ RuleReturned("require_tags")
    /\ rule_in.v.model.tags = <<>>
    /\ ~rule_in.v.status.exists
    /\ rule_in.v.status.has_tags
    /\ ~rule_out.v.result.passed

\* C15: max_upstream_dependencies passes iff the number of direct dependency
\* ids is at most the configured threshold, which is 10 when the rule's
\* parameter bag gives none; so a model with exactly threshold dependencies
\* passes and one with threshold + 1 fails.
MaxDependenciesPolicy ==
    (IsSome(rule_out) /\ rule_in.v.rule.rule_name = "max_upstream_dependencies") =>
        LET given == rule_in.v.rule.config.max_dependencies
            threshold == IF IsSome(given) THEN given.v ELSE 10
            count == Len(rule_in.v.model.depends_on)
        IN  /\ ~rule_out.v.raised
            /\ rule_out.v.result.passed = (count <= threshold)
            /\ count = threshold => rule_out.v.result.passed
            /\ count = threshold + 1 => ~rule_out.v.result.passed

\* max_upstream_dependencies with no configured threshold passed a model with
\* exactly 10 direct dependencies
MaxDependenciesWitness ==
    /\ RuleReturned("max_upstream_dependencies")
    /\ ~IsSome(rule_in.v.rule.config.max_dependencies)
    /\ Len(rule_in.v.model.depends_on) = 10
    /\ rule_out.v.result.passed

-----------------------------------------------------------------------------
(* datahub/urn_mapper.py: parse_urn, and the mapper's functions called on  *)
(* their own.                                                              *)

\* index of the first occurrence of character c in s, 0 when there is none
FirstIndexOf(s, c) ==
    LET at == {i \in 1..Len(s) : s[i] = c}
    IN  IF at = {} THEN 0 ELSE CHOOSE i \in at : \A j \in at : i <= j

\* s[n:]
Drop(s, n) ==
    SubSeq(s, n + 1, Len(s))

\* the dict parse_urn returns when the pattern does not match
EmptyComponents ==
    [platform |-> <<>>, name |-> <<>>, env |-> <<>>]

\* parse_urn: re.match of
\*   urn:li:dataset:\(urn:li:dataPlatform:([^,]+),([^,]+),([^)]+)\)
\* at the start of the text.  Each [^,]+ group is the non-empty text before
\* the next comma, the [^)]+ group the non-empty text before the next ")".
parse_urn(urn) ==
    IF ~StrStartsWith(urn, UrnPrefix) THEN EmptyComponents
    ELSE LET rest1 == Drop(urn, Len(UrnPrefix))
             c1 == FirstIndexOf(rest1, ",")
             rest2 == Drop(rest1, c1)
             c2 == FirstIndexOf(rest2, ",")
             rest3 == Drop(rest2, c2)
             c3 == FirstIndexOf(rest3, ")")
         IN  IF c1 < 2 \/ c2 < 2 \/ c3 < 2 THEN EmptyComponents
             ELSE [platform |-> Take(rest1, c1 - 1),
                   name |-> Take(rest2, c2 - 1),
                   env |-> Take(rest3, c3 - 1)]

\* target platforms, as configured (any letter case)
MapperPlatforms ==
    {Snowflake, <<"S","n","o","w","F","l","a","k","e">>, Postgres, Mysql,
     Bigquery, Trino}

EnvDev ==
    <<"D","e","v">>

\* UrnMapper objects
MapperSamples ==
    {UrnMapper(p, e, i, cd, cs) :
        p \in MapperPlatforms, e \in {EnvProd, EnvDev},
        i \in {None, Some(<<"I","n">>)},
        cd \in {None, Some(<<"C","d">>)},
        cs \in {None, Some(<<"C","s">>)}}

\* models in mixed letter case, with and without a database
MapperModels ==
    {[ModelA EXCEPT !.name = n, !.database = d, !.schema = <<"S","c">>] :
        n \in {<<"N","m","_","1">>, <<"a",",","B">>},
        d \in {None, Some(<<>>), Some(<<"D","b">>)}}

\* texts that are not of the form the mapper builds
NonMatchingTexts ==
    {<<>>, <<"x">>, UrnPrefix,
     UrnPrefix \o <<"p", ",", "n">>,
     UrnPrefix \o <<",", "n", ",", "e", ")">>,
     UrnPrefix \o <<"p", ",", "n", ",", "e">>,
     UrnPrefix \o <<"p", ",", "n", ",", ")">>,
     <<" ">> \o UrnPrefix \o <<"p", ",", "n", ",", "e", ")">>}

InitMapper ==
    /\ EngineAbsent
    /\ EngineVarsIdle
    /\ RuleVarsIdle
    /\ BatchVarsIdle
    /\ call_out = None
    /\ \/ \E mapper \in MapperSamples, model \in MapperModels :
            call_in = Some([op |-> "model_to_urn", mapper |-> mapper,
                            model |-> model])
       \/ \E text \in NonMatchingTexts :
            call_in = Some([op |-> "parse_urn", urn |-> text])
       \/ \E mapper \in MapperSamples, model \in MapperModels :
            call_in = Some([op |-> "source_to_urn", mapper |-> mapper,
                            source_name |-> model.name,
                            source_database |-> model.database,
                            source_schema |-> Some(model.schema)])

\* mapper.model_to_urn(model)
ModelToUrnCall ==
    /\ call_in.v.op = "model_to_urn"
    /\ call_out = None
    /\ call_out' = Some([dataset_name |->
                            get_dataset_name(call_in.v.mapper, call_in.v.model),
                         urn |-> model_to_urn(call_in.v.mapper, call_in.v.model),
                         parsed |-> None])
    /\ UNCHANGED <<report, pc, manifest, config, rules, provider, raises,
                   models_to_validate, all_statuses, arg, cur_status, mi, ri,
                   calls, evals, rule_in, rule_out, batch_in, batch_out,
                   call_in,
                   report_ref, kept>>

\* parse_urn(urn) on the identifier just built
ParseBuiltUrn ==
    /\ call_in.v.op = "model_to_urn"
    /\ IsSome(call_out)
    /\ call_out.v.parsed = None
    /\ call_out' = Some([call_out.v EXCEPT
                            !.parsed = Some(parse_urn(call_out.v.urn))])
    /\ UNCHANGED <<report, pc, manifest, config, rules, provider, raises,
                   models_to_validate, all_statuses, arg, cur_status, mi, ri,
                   calls, evals, rule_in, rule_out, batch_in, batch_out,
                   call_in,
                   report_ref, kept>>

\* parse_urn(urn) on a text given from outside
ParseGivenText ==
    /\ call_in.v.op = "parse_urn"
    /\ call_out = None
    /\ call_out' = Some([urn |-> call_in.v.urn,
                         parsed |-> Some(parse_urn(call_in.v.urn))])
    /\ UNCHANGED <<report, pc, manifest, config, rules, provider, raises,
                   models_to_validate, all_statuses, arg, cur_status, mi, ri,
                   calls, evals, rule_in, rule_out, batch_in, batch_out,
                   call_in,
                   report_ref, kept>>

\* mapper.source_to_urn(source_name, source_database, source_schema)
SourceToUrnCall ==
    /\ call_in.v.op = "source_to_urn"
    /\ call_out = None
    /\ call_out' = Some([urn |-> source_to_urn(call_in.v.mapper,
                                    call_in.v.source_name,
                                    call_in.v.source_database,
                                    call_in.v.source_schema),
                         parsed |-> None])
    /\ UNCHANGED <<report, pc, manifest, config, rules, provider, raises,
                   models_to_validate, all_statuses, arg, cur_status, mi, ri,
                   calls, evals, rule_in, rule_out, batch_in, batch_out,
                   call_in,
                   report_ref, kept>>

NextMapper ==
    \/ ModelToUrnCall
    \/ ParseBuiltUrn
    \/ ParseGivenText
    \/ SourceToUrnCall

SpecMapper ==
    InitMapper /\ [][NextMapper]_vars

-----------------------------------------------------------------------------
(* Notions the mapper claims are stated with.                              *)

\* model_to_urn has returned
MappedModel ==
    /\ IsSome(call_in)
    /\ call_in.v.op = "model_to_urn"
    /\ IsSome(call_out)

RECURSIVE SplitAt(_, _)
\* the pieces of s between occurrences of character c
SplitAt(s, c) ==
    LET at == FirstIndexOf(s, c)
    IN  IF at = 0 THEN <<s>>
        ELSE <<SubSeq(s, 1, at - 1)>> \o SplitAt(SubSeq(s, at + 1, Len(s)), c)

\* the first of the two texts that is given and not empty, else the empty text
FirstPresent(a, b) ==
    IF IsSome(a) /\ a.v # <<>> THEN a.v
    ELSE IF IsSome(b) /\ b.v # <<>> THEN b.v
    ELSE <<>>

\* effective database, schema and name of a model under a mapper, as given
EffectiveDatabase(mapper, model) ==
    FirstPresent(mapper.custom_database, model.database)

EffectiveSchema(mapper, model) ==
    FirstPresent(mapper.custom_schema, Some(model.schema))

\* the same text up to letter case
SameIgnoringCase(s, t) ==
    /\ Len(s) = Len(t)
    /\ \A i \in 1..Len(s) : CharLower(s[i]) = CharLower(t[i])

AllUpper(s) ==
    \A i \in 1..Len(s) : \A k \in 1..Len(LowerChars) : s[i] # LowerChars[k]

AllLower(s) ==
    \A i \in 1..Len(s) : \A k \in 1..Len(UpperChars) : s[i] # UpperChars[k]

\* piece is what the mapper's platform makes of the component `given`
CasedAsPlatform(platform, piece, given) ==
    IF platform \in {Snowflake}
    THEN AllUpper(piece) /\ SameIgnoringCase(piece, given)
    ELSE IF platform \in {Postgres, Mysql}
    THEN AllLower(piece) /\ SameIgnoringCase(piece, given)
    ELSE piece = given

\* C16: for any model and input casing, the database, schema and name
\* components of the identifier model_to_urn yields are all upper case on a
\* platform of the uppercase-normalizing set, all lower case on one of the
\* lowercase-normalizing set, and exactly as given on every other platform.
CasingByPlatform ==
    MappedModel =>
        LET mapper == call_in.v.mapper
            model == call_in.v.model
            given == SelectSeq(<<EffectiveDatabase(mapper, model),
                                 EffectiveSchema(mapper, model), model.name>>,
                               LAMBDA c : c # <<>>)
            pieces == SelectSeq(SplitAt(call_out.v.dataset_name, "."),
                                LAMBDA c : c # <<>>)
        IN  /\ Len(pieces) = Len(given)
            /\ \A i \in 1..Len(given) :
                    CasedAsPlatform(mapper.platform, pieces[i], given[i])
            /\ StrContains(call_out.v.urn,
                    call_out.v.dataset_name \o <<",">> \o mapper.env \o <<")">>)

\* model_to_urn on a lowercase-normalizing platform, for a model whose
\* database, schema and name are in mixed case
CasingWitness ==
    /\ MappedModel
    /\ call_in.v.mapper.platform = Postgres
    /\ call_in.v.model.database = Some(<<"D","b">>)
    /\ call_in.v.mapper.custom_schema = None
    /\ StrContains(call_out.v.urn, <<"d","b",".","s","c",".","n","m","_","1",",">>)

\* the joined name the identifier was built with: the dataset name, behind
\* the platform instance when there is one
JoinedName ==
    IF Truthy(call_in.v.mapper.platform_instance)
    THEN call_in.v.mapper.platform_instance.v \o <<".">> \o call_out.v.dataset_name
    ELSE call_out.v.dataset_name

\* parse_urn has returned
ParsedUrn ==
    /\ IsSome(call_out)
    /\ IsSome(call_out.v.parsed)

\* C17: for any identifier the mapper builds (any platform, joined name and
\* environment, with or without platform instance) parse_urn recovers exactly
\* the platform, the joined name and the environment it was built with; on a
\* text that does not match the template it returns empty components.
ParseUrnRoundTrip ==
    ParsedUrn =>
        IF call_in.v.op = "model_to_urn"
        THEN call_out.v.parsed.v =
                [platform |-> call_in.v.mapper.platform, name |-> JoinedName,
                 env |-> call_in.v.mapper.env]
        ELSE call_out.v.parsed.v =
                [platform |-> <<>>, name |-> <<>>, env |-> <<>>]

\* parse_urn cut the joined name of a built identifier at a comma in it
NameCutAtComma ==
    /\ ParsedUrn
    /\ call_in.v.op = "model_to_urn"
    /\ StrContains(JoinedName, <<",">>)
    /\ call_out.v.parsed.v.name # JoinedName
    /\ call_out.v.parsed.v.env # call_in.v.mapper.env

\* C18: for every platform, get_dataset_name joins the normalized components
\* as database.schema.name when the effective database (override, else the
\* model's, else empty) is present, and as schema.name when it is absent.
DatasetNameJoin ==
    MappedModel =>
        LET mapper == call_in.v.mapper
            model == call_in.v.model
            database == EffectiveDatabase(mapper, model)
            given == IF database # <<>>
                     THEN <<database, EffectiveSchema(mapper, model), model.name>>
                     ELSE <<EffectiveSchema(mapper, model), model.name>>
            pieces == SplitAt(call_out.v.dataset_name, ".")
        IN  /\ Len(pieces) = Len(given)
            /\ \A i \in 1..Len(given) :
                    CasedAsPlatform(mapper.platform, pieces[i], given[i])

\* get_dataset_name on bigquery for a model without database began the name
\* with a dot
BigqueryLeadingDot ==
    /\ MappedModel
    /\ call_in.v.mapper.platform = Bigquery
    /\ EffectiveDatabase(call_in.v.mapper, call_in.v.model) = <<>>
    /\ call_out.v.dataset_name[1] = "."

-----------------------------------------------------------------------------
\* the validate command has ended after the engine returned a report
CommandEnded ==
    /\ pc = "exited"
    /\ ~call_in.v.raised

\* C19: is_successful is true iff the errors counter is 0, whatever the
\* number of warnings; the validate command ends with the validation-failed
\* exit code iff the report has errors, or has warnings while
\* fail_on_warnings is configured, and with the success exit code otherwise.
SuccessAndExitCode ==
    /\ is_successful(report) = (report.errors = 0)
    /\ CommandEnded =>
        IF \/ report.errors > 0
           \/ (report.warnings > 0 /\ call_in.v.fail_on_warnings)
        THEN call_out.v = 1
        ELSE call_out.v = 0

\* the command ended with the success exit code on a report with warnings and
\* no errors, fail_on_warnings not being configured
SuccessWithWarningsWitness ==
    /\ CommandEnded
    /\ report.errors = 0
    /\ report.warnings > 0
    /\ ~call_in.v.fail_on_warnings
    /\ is_successful(report)
    /\ call_out.v = 0

-----------------------------------------------------------------------------
\* the configured rule names that are disabled or not in the registry
IneffectiveRuleNames ==
    {config.rules[i].name : i \in {k \in 1..Len(config.rules) :
        ~config.rules[k].enabled \/ config.rules[k].name \notin RULE_REGISTRY}}

\* the engine's rule list is the configured rules that are enabled and
\* registered, in configuration order, and no evaluation or outcome of the
\* engine names a disabled or unknown rule
RuleListAsConfigured ==
    /\ Len(rules) = Len(EnabledRules)
    /\ \A i \in 1..Len(rules) :
        /\ rules[i].rule_name = EnabledRules[i].name
        /\ rules[i].severity = EnabledRules[i].severity
    /\ \A k \in 1..Len(report.results) :
        report.results[k].rule_name \notin IneffectiveRuleNames
    /\ \A k \in 1..Len(evals) : evals[k].rule \notin IneffectiveRuleNames

\* C20: the engine's rule list is derived once, at construction (no operation
\* of the engine changes it afterwards), and holds exactly the configured
\* rules that are enabled and registered, in configuration order; an unknown
\* or disabled rule produces no outcome in any report of the engine.
RuleListDerivedOnce ==
    /\ []RuleListAsConfigured
    /\ [][rules' = rules]_vars

\* a report with outcomes returned by an engine whose configuration names an
\* unknown rule and a disabled rule among several effective ones
RuleListWitness ==
    /\ pc \in {"validate_done", "single_done"}
    /\ Len(report.results) >= Len(rules)
    /\ Len(rules) >= 2
    /\ \E i \in 1..Len(config.rules) :
        config.rules[i].enabled /\ config.rules[i].name \notin RULE_REGISTRY
    /\ \E i \in 1..Len(config.rules) :
        ~config.rules[i].enabled /\ config.rules[i].name \in RULE_REGISTRY

-----------------------------------------------------------------------------
\* what the catalog answers for an identifier right now, a failing fetch
\* counting as a dataset that does not exist
ProviderStatus(urn) ==
    IF urn \notin raises /\ urn \in DOMAIN provider THEN provider[urn]
    ELSE [urn |-> urn, exists |-> FALSE, has_owner |-> FALSE,
          has_description |-> FALSE, has_domain |-> FALSE, has_tags |-> FALSE,
          is_deprecated |-> FALSE, owners |-> <<>>, domain |-> None,
          tags |-> <<>>, description |-> None, deprecation_note |-> None]

\* the outcome of the k-th pair when its rule runs on the catalog's present data
OutcomeOnPresentData(k) ==
    LET present == [j \in 1..Len(all_statuses) |->
                        [urn |-> all_statuses[j].urn,
                         status |-> ProviderStatus(all_statuses[j].urn)]]
    IN  RunRule(PairRule(k), PairModel(k),
                ProviderStatus(PoolUrn(config, PairModel(k))), manifest, present)

\* C21: across any sequence of validate() calls on one engine, a report that
\* was returned earlier is not changed by a later call, and each call's report
\* is built from statuses fetched during that call: its status snapshot is
\* the catalog's data at that call and its outcomes are those of this run
\* only, computed on that data.
FreshReportPerRun ==
    /\ \A i \in 1..Len(kept) :
        kept[i].ref = report_ref => kept[i].report = report
    /\ InValidate =>
        \A j \in 1..Len(all_statuses) :
            all_statuses[j].status = ProviderStatus(all_statuses[j].urn)
    /\ pc = "validate_done" =>
        /\ Len(report.results) = Len(models_to_validate) * Len(rules)
        /\ \A k \in 1..Len(report.results) :
            report.results[k] = OutcomeOnPresentData(k)

\* a second validate() call has returned, after the catalog's data changed,
\* a report whose outcomes differ from those of the report kept from the
\* first call
FreshReportWitness ==
    /\ pc = "validate_done"
    /\ Len(kept) >= 1
    /\ kept[1].ref # report_ref
    /\ Len(kept[1].report.results) = Len(report.results)
    /\ \E k \in 1..Len(report.results) :
        kept[1].report.results[k].passed # report.results[k].passed

-----------------------------------------------------------------------------
(* datahub/client.py: DataHubClient over a DataHubGraph.  A graph is given *)
(* by what each of its calls does for the identifier asked about: it       *)
(* returns a value or raises.  `ok` is whether _get_graph can create it.   *)

ErrGraph ==
    <<"g","r","a","p","h"," ","e","r","r","o","r">>

\* DataHubClient.dataset_exists
dataset_exists(graph, dataset_urn) ==
    IF ~graph.ok THEN FALSE
    ELSE IF graph.exists.raised THEN FALSE
    ELSE graph.exists.result

\* the ownership block of get_governance_status: the owners list
OwnersOf(graph) ==
    IF graph.get_ownership.raised THEN <<>>
    ELSE IF Truthy(graph.get_ownership.result)
            /\ graph.get_ownership.result.v # <<>>
    THEN graph.get_ownership.result.v
    ELSE <<>>

\* the properties block: description
DescriptionOf(graph) ==
    IF graph.get_dataset_properties.raised THEN None
    ELSE IF Truthy(graph.get_dataset_properties.result)
            /\ graph.get_dataset_properties.result.v # <<>>
    THEN graph.get_dataset_properties.result
    ELSE None

\* the domain block: domains_aspect.domains[0]
DomainOf(graph) ==
    IF graph.get_domains.raised THEN None
    ELSE IF Truthy(graph.get_domains.result)
            /\ graph.get_domains.result.v # <<>>
    THEN Some(graph.get_domains.result.v[1])
    ELSE None

\* the tags block: the tags list
TagsOf(graph) ==
    IF graph.get_tags.raised THEN <<>>
    ELSE IF Truthy(graph.get_tags.result) /\ graph.get_tags.result.v # <<>>
    THEN graph.get_tags.result.v
    ELSE <<>>

\* the deprecation block: is the aspect there with deprecated set
DeprecatedOf(graph) ==
    /\ ~graph.get_deprecation.raised
    /\ Truthy(graph.get_deprecation.result)
    /\ graph.get_deprecation.result.v.deprecated

\* DataHubClient.get_governance_status over a graph
DataHubClient_get_governance_status(graph, dataset_urn) ==
    IF ~dataset_exists(graph, dataset_urn)
    THEN Returned(StatusNotExists(dataset_urn))
    ELSE Returned(
        [urn |-> dataset_urn,
         exists |-> TRUE,
         has_owner |-> Len(OwnersOf(graph)) > 0,
         has_description |->
            /\ DescriptionOf(graph) # None
            /\ StrStrip(DescriptionOf(graph).v) # <<>>,
         has_domain |-> DomainOf(graph) # None,
         has_tags |-> Len(TagsOf(graph)) > 0,
         is_deprecated |-> DeprecatedOf(graph),
         owners |-> OwnersOf(graph),
         domain |-> DomainOf(graph),
         tags |-> TagsOf(graph),
         description |-> DescriptionOf(graph),
         deprecation_note |->
            IF DeprecatedOf(graph) THEN graph.get_deprecation.result.v.note
            ELSE None])

\* what the graph's calls do for one identifier
GraphSamples ==
    [ok : BOOLEAN,
     exists : {Raised(ErrGraph), Returned(TRUE), Returned(FALSE)},
     get_ownership : {Raised(ErrGraph), Returned(None), Returned(Some(<<>>)),
                      Returned(Some(<< <<"o">> >>))},
     get_dataset_properties : {Raised(ErrGraph), Returned(None),
                               Returned(Some(<<" ">>)),
                               Returned(Some(<<"d">>))},
     get_domains : {Raised(ErrGraph), Returned(None),
                    Returned(Some(<< <<"m">> >>))},
     get_tags : {Raised(ErrGraph), Returned(None),
                 Returned(Some(<< <<"t">> >>))},
     get_deprecation : {Raised(ErrGraph), Returned(None),
                        Returned(Some([deprecated |-> TRUE,
                                       note |-> Some(<<"n">>)])),
                        Returned(Some([deprecated |-> FALSE,
                                       note |-> None]))}]

InitClient ==
    /\ EngineAbsent
    /\ EngineVarsIdle
    /\ RuleVarsIdle
    /\ BatchVarsIdle
    /\ call_out = None
    /\ \E graph \in GraphSamples, op \in {"dataset_exists",
                                          "get_governance_status"} :
            call_in = Some([op |-> op, graph |-> graph,
                            urn |-> model_to_urn(SampleMapper, ModelA)])

\* client.dataset_exists(dataset_urn)
DatasetExistsCall ==
    /\ call_in.v.op = "dataset_exists"
    /\ call_out = None
    /\ call_out' = Some(Returned(dataset_exists(call_in.v.graph, call_in.v.urn)))
    /\ UNCHANGED <<report, pc, manifest, config, rules, provider, raises,
                   models_to_validate, all_statuses, arg, cur_status, mi, ri,
                   calls, evals, rule_in, rule_out, batch_in, batch_out,
                   call_in,
                   report_ref, kept>>

\* client.get_governance_status(dataset_urn)
GetGovernanceStatusCall ==
    /\ call_in.v.op = "get_governance_status"
    /\ call_out = None
    /\ call_out' = Some(DataHubClient_get_governance_status(call_in.v.graph,
                                                            call_in.v.urn))
    /\ UNCHANGED <<report, pc, manifest, config, rules, provider, raises,
                   models_to_validate, all_statuses, arg, cur_status, mi, ri,
                   calls, evals, rule_in, rule_out, batch_in, batch_out,
                   call_in,
                   report_ref, kept>>

NextClient ==
    \/ DatasetExistsCall
    \/ GetGovernanceStatusCall

SpecClient ==
    InitClient /\ [][NextClient]_vars

\* a step of the fetch raised inside the client: creating the graph, the
\* existence check, or a lookup the fetch went on to make
StepFailed(graph) ==
    \/ ~graph.ok
    \/ graph.exists.raised
    \/ /\ graph.exists.result
       /\ \/ graph.get_ownership.raised
          \/ graph.get_dataset_properties.raised
          \/ graph.get_domains.raised
          \/ graph.get_tags.raised
          \/ graph.get_deprecation.raised

\* get_governance_status has returned to its caller or raised
FetchEnded ==
    /\ IsSome(call_in)
    /\ call_in.v.op = "get_governance_status"
    /\ IsSome(call_out)

\* C22: whenever a step of get_governance_status fails (the existence check or
\* the ownership, description, domain, tag or deprecation lookup), the call
\* raises nothing and returns a status with exists = false.
FetchFailsClosed ==
    (FetchEnded /\ StepFailed(call_in.v.graph)) =>
        /\ ~call_out.v.raised
        /\ ~call_out.v.result.exists

\* a lookup raised and the status returned says the dataset exists
FailedLookupStillExists ==
    /\ FetchEnded
    /\ dataset_exists(call_in.v.graph, call_in.v.urn)
    /\ call_in.v.graph.get_ownership.raised
    /\ ~call_out.v.raised
    /\ call_out.v.result.exists
    /\ ~call_out.v.result.has_owner

\* get_governance_status never raises, and a failed existence check gives a
\* status with exists = false
FetchNeverRaises ==
    FetchEnded =>
        /\ ~call_out.v.raised
        /\ (~call_in.v.graph.ok \/ call_in.v.graph.exists.raised) =>
                call_out.v.result = StatusNotExists(call_in.v.urn)

-----------------------------------------------------------------------------
\* source_to_urn has returned
MappedSource ==
    /\ IsSome(call_in)
    /\ call_in.v.op = "source_to_urn"
    /\ IsSome(call_out)

\* the mapper has neither a database nor a schema override
WithoutOverrides(mapper) ==
    /\ ~Truthy(mapper.custom_database)
    /\ ~Truthy(mapper.custom_schema)

\* a model with the name, database and schema the source call was given
ModelLikeSource ==
    [ModelA EXCEPT !.name = call_in.v.source_name,
                   !.database = call_in.v.source_database,
                   !.schema = call_in.v.source_schema.v]

\* C23: for a mapper without overrides, source_to_urn(name, database, schema)
\* equals model_to_urn of a model with the same name, database and schema, on
\* every platform and with or without a database.
SourceAsModel ==
    (MappedSource /\ WithoutOverrides(call_in.v.mapper)) =>
        call_out.v.urn = model_to_urn(call_in.v.mapper, ModelLikeSource)

\* on bigquery a source without a database gets no leading dot, a model does
BigquerySourceNoDot ==
    /\ MappedSource
    /\ WithoutOverrides(call_in.v.mapper)
    /\ call_in.v.mapper.platform = Bigquery
    /\ ~Truthy(call_in.v.source_database)
    /\ call_out.v.urn # model_to_urn(call_in.v.mapper, ModelLikeSource)

\* the two conversions agree off bigquery and whenever a database is given
SourceAsModelOffBigquery ==
    (/\ MappedSource
     /\ WithoutOverrides(call_in.v.mapper)
     /\ (call_in.v.mapper.platform # Bigquery
            \/ Truthy(call_in.v.source_database))) =>
        call_out.v.urn = model_to_urn(call_in.v.mapper, ModelLikeSource)

-----------------------------------------------------------------------------
\* positions of seq, in order, whose element satisfies Test
RECURSIVE PositionsFrom(_, _, _)
PositionsFrom(seq, flags, i) ==
    IF i > Len(seq) THEN <<>>
    ELSE (IF flags[i] THEN <<i>> ELSE <<>>) \o PositionsFrom(seq, flags, i + 1)

\* sub is seq cut down to the elements at the flagged positions, order kept
CutDownTo(sub, seq, flags) ==
    LET at == PositionsFrom(seq, flags, 1)
    IN  /\ Len(sub) = Len(at)
        /\ \A i \in 1..Len(sub) : sub[i] = seq[at[i]]

ErrorFlags ==
    [k \in 1..Len(report.results) |->
        ~report.results[k].passed /\ report.results[k].severity = "error"]

WarningFlags ==
    [k \in 1..Len(report.results) |->
        ~report.results[k].passed /\ report.results[k].severity = "warning"]

ModelFlags(id) ==
    [k \in 1..Len(report.results) |->
        report.results[k].model_unique_id = id]

\* what the getters of the report give, against its list and counters
ReportGettersAgree ==
    /\ CutDownTo(get_errors(report), report.results, ErrorFlags)
    /\ Len(get_errors(report)) = report.errors
    /\ CutDownTo(get_warnings(report), report.results, WarningFlags)
    /\ Len(get_warnings(report)) = report.warnings
    /\ \A id \in {"model.a", "model.b", "model.c"} :
            CutDownTo(get_results_for_model(report, id), report.results,
                      ModelFlags(id))
    /\ \A k \in 1..Len(report.results) :
            report.results[k].passed =>
                /\ ~is_error(report.results[k])
                /\ ~is_warning(report.results[k])
                /\ \A j \in 1..Len(get_errors(report)) :
                        get_errors(report)[j] # report.results[k]
                /\ \A j \in 1..Len(get_warnings(report)) :
                        get_warnings(report)[j] # report.results[k]

\* C24: after any sequence of add_result calls, results is the added outcomes
\* in call order (each call appends its argument and changes nothing before
\* it), get_errors is the order-preserving sub-sequence of failing outcomes of
\* error severity and is as long as the errors counter, get_warnings likewise
\* for warning severity, get_results_for_model(id) is exactly the outcomes of
\* model id, and a passing outcome is never an error or a warning.
ReportGetters ==
    /\ []ReportGettersAgree
    /\ [][report'.results = Append(report.results, call_in'.v)]_vars

\* three outcomes added: a failing error, a passing outcome of error severity
\* and a failing warning, of two models
ReportGettersWitness ==
    /\ Len(report.results) = 3
    /\ is_error(report.results[1])
    /\ report.results[2].passed /\ report.results[2].severity = "error"
    /\ is_warning(report.results[3])
    /\ Len(get_errors(report)) = 1
    /\ Len(get_warnings(report)) = 1
    /\ Len(get_results_for_model(report, "model.a")) = 2
    /\ Len(get_results_for_model(report, "model.b")) = 1
    /\ call_in = Some(report.results[3])

-----------------------------------------------------------------------------
(* rule.validate calls on the engine's objects in any order: the model is  *)
(* an element of the manifest, the status an entry of all_statuses (or a   *)
(* default built for the call), the rule holds its configuration.          *)

\* A slip of a rule: it removes the entry it was given from all_statuses.
RuleLeaves_Consuming(rule, model, status, mf, statuses) ==
    [rule |-> rule, manifest |-> mf,
     all_statuses |-> SelectSeq(statuses, LAMBDA e : e.urn # status.urn)]

\* the objects as rule.validate leaves them: no validate assigns to an
\* attribute or an item of model, status, manifest, all_statuses or self (the
\* lists it appends to are its own locals)
RuleLeaves(rule, model, status, mf, statuses) ==
    [rule |-> rule, manifest |-> mf, all_statuses |-> statuses]

Evaluated(m, r) ==
    \E k \in 1..Len(evals) : evals[k].mi = m /\ evals[k].ri = r

\* one rule.validate call under the engine's try/except, for any pair not yet
\* evaluated
EvalAnyPair ==
    /\ pc = "validate"
    /\ \E m \in 1..Len(models_to_validate), r \in 1..Len(rules) :
        /\ ~Evaluated(m, r)
        /\ LET model == models_to_validate[m]
               rule == rules[r]
               urn == model_to_urn(EngineMapper(config), model)
               status == DictGet(all_statuses, urn, StatusNotExists(urn))
               left == RuleLeaves(rule, model, status, manifest, all_statuses)
           IN  /\ evals' = Append(evals,
                    [rule |-> rule.rule_name, model |-> model.unique_id,
                     mi |-> m, ri |-> r,
                     result |-> RunRule(rule, model, status, manifest,
                                        all_statuses)])
               /\ manifest' = left.manifest
               /\ all_statuses' = left.all_statuses
               /\ rules' = [rules EXCEPT ![r] = left.rule]
    /\ UNCHANGED <<report, pc, config, provider, raises, models_to_validate,
                   arg, cur_status, mi, ri, calls, rule_in, rule_out,
                   batch_in, batch_out, call_in, call_out,
                   report_ref, kept>>

NextPairs ==
    \/ ValidateBegin
    \/ EvalAnyPair

SpecPairs ==
    InitRuns /\ [][NextPairs]_vars

\* the outcome the k-th evaluated pair gets from the data as it is now
OutcomeOfPairNow(k) ==
    LET model == models_to_validate[evals[k].mi]
        rule == rules[evals[k].ri]
        urn == model_to_urn(EngineMapper(config), model)
    IN  RunRule(rule, model,
                DictGet(all_statuses, urn, StatusNotExists(urn)),
                manifest, all_statuses)

-----------------------------------------------------------------------------
(* parsers/manifest.py: load_dbt_project's merge of catalog columns into a *)
(* model.  Dicts are sequences of [k, v] entries in insertion order; the   *)
(* values of column fields are None or Some(text).                         *)

KvHas(d, k) ==
    \E i \in 1..Len(d) : d[i].k = k

KvGet(d, k) ==
    d[CHOOSE i \in 1..Len(d) : d[i].k = k].v

\* d[k] = v
KvSet(d, k, v) ==
    IF KvHas(d, k)
    THEN [i \in 1..Len(d) |-> IF d[i].k = k THEN [k |-> k, v |-> v] ELSE d[i]]
    ELSE Append(d, [k |-> k, v |-> v])

RECURSIVE KvUpdateFrom(_, _, _)
KvUpdateFrom(d, other, i) ==
    IF i > Len(other) THEN d
    ELSE KvUpdateFrom(KvSet(d, other[i].k, other[i].v), other, i + 1)

\* d.update(other)
KvUpdate(d, other) ==
    KvUpdateFrom(d, other, 1)

\* DbtCatalogParser.get_column_info for one catalog column: info.get("name",
\* name), info.get("type"), info.get("comment"), info.get("index")
CatalogColumn(name, info) ==
    << [k |-> "name", v |-> IF KvHas(info, "name") THEN KvGet(info, "name")
                            ELSE Some(name)],
       [k |-> "type", v |-> IF KvHas(info, "type") THEN KvGet(info, "type")
                            ELSE None],
       [k |-> "comment", v |-> IF KvHas(info, "comment")
                               THEN KvGet(info, "comment") ELSE None],
       [k |-> "index", v |-> IF KvHas(info, "index") THEN KvGet(info, "index")
                             ELSE None] >>

\* DbtCatalogParser.get_column_info: the columns of the catalog node
get_column_info(catalog_columns) ==
    [i \in 1..Len(catalog_columns) |->
        [k |-> catalog_columns[i].k,
         v |-> CatalogColumn(catalog_columns[i].k, catalog_columns[i].v)]]

\* {k: v for k, v in col_data.items() if v is not None}
NotNoneItems(col_data) ==
    SelectSeq(col_data, LAMBDA e : e.v # None)

RECURSIVE MergeColumnsFrom(_, _, _)
\* the loop over column_info.items() in load_dbt_project
MergeColumnsFrom(columns, column_info, i) ==
    IF i > Len(column_info) THEN columns
    ELSE LET col_name == column_info[i].k
             col_data == column_info[i].v
         IN  MergeColumnsFrom(
                IF ~KvHas(columns, col_name)
                THEN KvSet(columns, col_name, col_data)
                ELSE KvSet(columns, col_name,
                        KvUpdate(KvGet(columns, col_name),
                                 NotNoneItems(col_data))),
                column_info, i + 1)

\* load_dbt_project, for one model: its columns after the catalog merge.
\* `catalog` is None without a catalog file, else the catalog node's columns
\* (empty when the catalog has no node for the model)
load_dbt_project_columns(columns, catalog) ==
    IF catalog = None THEN columns
    ELSE MergeColumnsFrom(columns, get_column_info(catalog.v), 1)

\* DbtModel.from_manifest_node: one manifest column
ManifestColumn(col_name, name, description, data_type) ==
    [k |-> col_name,
     v |-> << [k |-> "name", v |-> name],
              [k |-> "description", v |-> description],
              [k |-> "data_type", v |-> data_type],
              [k |-> "meta", v |-> Some(<<>>)] >>]

\* model.columns as parsed from the manifest
ManifestColumnSamples ==
    { <<>> } \cup
    { <<ManifestColumn(<<"i","d">>, Some(n), Some(d), t)>> :
        n \in {<<"i","d">>, <<"I","d">>}, d \in {<<>>, <<"d">>},
        t \in {None, Some(<<"i","n","t">>)} } \cup
    { <<ManifestColumn(<<"i","d">>, Some(<<"i","d">>), Some(<<"d">>), None),
        ManifestColumn(<<"n","m">>, Some(<<"n","m">>), Some(<<>>), None)>> }

\* one raw catalog column: the keys it has and their values
RawCatalogInfos ==
    { <<>> } \cup
    { << [k |-> "name", v |-> n], [k |-> "type", v |-> t] >> :
        n \in {None, Some(<<"i","d">>), Some(<<"I","D">>)},
        t \in {None, Some(<<"I","N","T">>)} } \cup
    { << [k |-> "type", v |-> Some(<<"I","N","T">>)],
         [k |-> "comment", v |-> Some(<<"c">>)],
         [k |-> "index", v |-> Some(<<"1">>)] >> }

\* the columns of the catalog node of the model
CatalogSamples ==
    { None, Some(<<>>) } \cup
    { Some(<< [k |-> c, v |-> info] >>) :
        c \in {<<"i","d">>, <<"x">>}, info \in RawCatalogInfos }

InitLoad ==
    /\ EngineAbsent
    /\ EngineVarsIdle
    /\ RuleVarsIdle
    /\ BatchVarsIdle
    /\ call_out = None
    /\ \E columns \in ManifestColumnSamples, catalog \in CatalogSamples :
            call_in = Some([op |-> "load_dbt_project", columns |-> columns,
                            catalog |-> catalog])

\* load_dbt_project(manifest_path, catalog_path)
LoadProjectCall ==
    /\ call_out = None
    /\ call_out' = Some(load_dbt_project_columns(call_in.v.columns,
                                                 call_in.v.catalog))
    /\ UNCHANGED <<report, pc, manifest, config, rules, provider, raises,
                   models_to_validate, all_statuses, arg, cur_status, mi, ri,
                   calls, evals, rule_in, rule_out, batch_in, batch_out,
                   call_in,
                   report_ref, kept>>

NextLoad ==
    LoadProjectCall

SpecLoad ==
    InitLoad /\ [][NextLoad]_vars

\* load_dbt_project has returned
Loaded ==
    /\ IsSome(call_in)
    /\ call_in.v.op = "load_dbt_project"
    /\ IsSome(call_out)

\* the catalog's columns for the model, as get_column_info gives them
CatalogInfo ==
    IF call_in.v.catalog = None THEN <<>>
    ELSE get_column_info(call_in.v.catalog.v)

\* a field value that is neither None nor empty
NonEmptyValue(v) ==
    v # None /\ v.v # <<>>

\* a column missing from the manifest is added with the catalog's data
MissingColumnsAdded ==
    \A i \in 1..Len(CatalogInfo) :
        ~KvHas(call_in.v.columns, CatalogInfo[i].k) =>
            /\ KvHas(call_out.v, CatalogInfo[i].k)
            /\ KvGet(call_out.v, CatalogInfo[i].k) = CatalogInfo[i].v

\* no non-empty field of a manifest column is overwritten
NonEmptyFieldsKept ==
    \A i \in 1..Len(call_in.v.columns) :
        LET col == call_in.v.columns[i]
        IN  /\ KvHas(call_out.v, col.k)
            /\ \A j \in 1..Len(col.v) :
                  NonEmptyValue(col.v[j].v) =>
                      /\ KvHas(KvGet(call_out.v, col.k), col.v[j].k)
                      /\ KvGet(KvGet(call_out.v, col.k), col.v[j].k) = col.v[j].v

\* columns the catalog does not mention are unchanged, and so are the fields
\* of a column for which the catalog has no value
UnmentionedUnchanged ==
    \A i \in 1..Len(call_in.v.columns) :
        LET col == call_in.v.columns[i]
        IN  /\ KvHas(call_out.v, col.k)
            /\ ~KvHas(CatalogInfo, col.k) => KvGet(call_out.v, col.k) = col.v
            /\ KvHas(CatalogInfo, col.k) =>
                \A j \in 1..Len(col.v) :
                    (~KvHas(KvGet(CatalogInfo, col.k), col.v[j].k)
                        \/ KvGet(KvGet(CatalogInfo, col.k), col.v[j].k) = None)
                    => KvGet(KvGet(call_out.v, col.k), col.v[j].k) = col.v[j].v

\* C26: when load_dbt_project merges the catalog's columns into a model, a
\* column missing from the manifest is added, no field of a manifest column
\* that has a non-empty value is overwritten, and the columns and fields the
\* catalog does not mention are left unchanged.
CatalogMergeFillsOnly ==
    Loaded =>
        /\ MissingColumnsAdded
        /\ NonEmptyFieldsKept
        /\ UnmentionedUnchanged

\* the manifest's column name was replaced by the catalog's
ColumnNameOverwritten ==
    /\ Loaded
    /\ KvHas(call_in.v.columns, <<"i","d">>)
    /\ KvHas(CatalogInfo, <<"i","d">>)
    /\ KvGet(KvGet(call_in.v.columns, <<"i","d">>), "name") = Some(<<"i","d">>)
    /\ KvGet(KvGet(call_out.v, <<"i","d">>), "name") = Some(<<"I","D">>)

\* the merge adds missing columns and leaves alone what the catalog does not
\* mention
CatalogMergeAddsAndLeaves ==
    Loaded => (MissingColumnsAdded /\ UnmentionedUnchanged)

-----------------------------------------------------------------------------
\* the position in all_statuses of the entry validate() reads for a model: the
\* entry whose key is the model's identifier (0: none)
EntryIndex(model) ==
    IF \E i \in 1..Len(all_statuses) : all_statuses[i].urn = PoolUrn(config, model)
    THEN CHOOSE i \in 1..Len(all_statuses) :
            all_statuses[i].urn = PoolUrn(config, model)
    ELSE 0

\* the passes of validate()'s loops made so far
PassesMade ==
    1..Len(report.results)

\* C27 (as stated): in validate(), two models with distinct unique_ids are
\* never evaluated against the same entry of the status map.
UniqueIdSoleJoinKey ==
    (InValidate /\ rules # <<>>) =>
        \A j, k \in PassesMade :
            PairModel(j).unique_id # PairModel(k).unique_id =>
                EntryIndex(PairModel(j)) # EntryIndex(PairModel(k))

\* C27 (amended): in validate(), the status a model is evaluated against is
\* the status-map entry keyed by the model's identifier, the URN built from
\* platform, database, schema and name: every evaluated model has such an
\* entry, its outcomes are computed on it, and two models are evaluated
\* against the same entry exactly when their identifiers are equal.
UrnJoinsStatusMap ==
    (InValidate /\ rules # <<>>) =>
        /\ \A i, j \in 1..Len(all_statuses) :
                all_statuses[i].urn = all_statuses[j].urn => i = j
        /\ \A k \in PassesMade :
            /\ EntryIndex(PairModel(k)) # 0
            /\ report.results[k] =
                    RunRule(PairRule(k), PairModel(k),
                            all_statuses[EntryIndex(PairModel(k))].status,
                            manifest, all_statuses)
        /\ \A j, k \in PassesMade :
                (EntryIndex(PairModel(j)) = EntryIndex(PairModel(k)))
                    <=> (PoolUrn(config, PairModel(j)) = PoolUrn(config, PairModel(k)))

\* two models with distinct unique_ids were evaluated against one entry
SharedStatusEntry ==
    /\ pc = "validate_done"
    /\ rules # <<>>
    /\ \E j, k \in PassesMade :
        /\ PairModel(j).unique_id # PairModel(k).unique_id
        /\ EntryIndex(PairModel(j)) = EntryIndex(PairModel(k))
        /\ EntryIndex(PairModel(j)) # 0
        /\ all_statuses[EntryIndex(PairModel(j))].status.exists

-----------------------------------------------------------------------------
\* the outcomes validate() reported for a model and a rule name
OutcomesOf(model, rule_name) ==
    {k \in PassesMade :
        /\ PairModel(k).unique_id = model.unique_id
        /\ PairRule(k).rule_name = rule_name}

\* the provider reports the model's own identifier as existing
ReportedExisting(d) ==
    /\ PoolUrn(config, d) \notin raises
    /\ PoolUrn(config, d) \in DOMAIN provider
    /\ provider[PoolUrn(config, d)].exists

\* every selected model was evaluated under the rule, if it is enabled
RuleRanFor(model, rule_name) ==
    (\E r \in 1..Len(rules) : rules[r].rule_name = rule_name)
        => OutcomesOf(model, rule_name) # {}

\* C28: in validate(), for every selected model M and every direct dependency
\* id of M that resolves to a model D of the graph, if the provider reports
\* D's own identifier as existing and deprecated then no_deprecated_upstream
\* fails for M, and if it reports it as existing and without owner then
\* upstream_must_have_owner fails for M, whatever the platform's casing and
\* with or without a platform instance.
OwnIdentifierNeverMissed ==
    pc = "validate_done" =>
        \A i \in 1..Len(models_to_validate) :
            \A d \in ResolvedDeps(models_to_validate[i]) :
                LET model == models_to_validate[i]
                    u == PoolUrn(config, d)
                IN  /\ (ReportedExisting(d) /\ provider[u].is_deprecated) =>
                        /\ RuleRanFor(model, "no_deprecated_upstream")
                        /\ \A k \in OutcomesOf(model, "no_deprecated_upstream") :
                                ~report.results[k].passed
                    /\ (ReportedExisting(d) /\ ~provider[u].has_owner) =>
                        /\ RuleRanFor(model, "upstream_must_have_owner")
                        /\ \A k \in OutcomesOf(model, "upstream_must_have_owner") :
                                ~report.results[k].passed

\* a run on a platform that changes letter case in which a model failed
\* no_deprecated_upstream for its dependency's own deprecated identifier
OwnIdentifierWitness ==
    /\ pc = "validate_done"
    /\ config.target_platform \in {Snowflake, Postgres}
    /\ \E i \in 1..Len(models_to_validate) :
        \E d \in ResolvedDeps(models_to_validate[i]) :
            /\ d.unique_id # models_to_validate[i].unique_id
            /\ ReportedExisting(d)
            /\ provider[PoolUrn(config, d)].is_deprecated
            /\ ~provider[PoolUrn(config, d)].has_owner
            /\ OutcomesOf(models_to_validate[i], "no_deprecated_upstream") # {}
            /\ OutcomesOf(models_to_validate[i], "upstream_must_have_owner") # {}
            /\ \A k \in OutcomesOf(models_to_validate[i], "no_deprecated_upstream") :
                    ~report.results[k].passed

\* the same on a case-keeping platform with a platform instance
OwnIdentifierWithInstance ==
    /\ pc = "validate_done"
    /\ config.target_platform = Trino
    /\ Truthy(config.platform_instance)
    /\ \E i \in 1..Len(models_to_validate) :
        \E d \in ResolvedDeps(models_to_validate[i]) :
            /\ ReportedExisting(d)
            /\ provider[PoolUrn(config, d)].is_deprecated
            /\ OutcomesOf(models_to_validate[i], "no_deprecated_upstream") # {}

-----------------------------------------------------------------------------
(* validate() and validate_single_model() on one engine, the report of     *)
(* validate() kept by the caller for comparison.                           *)

\* catalogs in which one model is deprecated and the others are owned
CatalogsOneDeprecated(cfg) ==
    LET b == PoolUrn(cfg, ModelB)
        c == PoolUrn(cfg, ModelC)
        d == PoolUrn(cfg, ModelD)
    IN  { [cat |-> [u \in {b, c, d} |->
                      IF u = dep THEN StatusDeprecated(u) ELSE StatusOwned(u)],
           failing |-> {}] : dep \in {b, c, d} }

InitBoth ==
    /\ manifest \in {<<ModelB, ModelC, ModelD>>, <<ModelD, ModelC, ModelB>>,
                     <<ModelA, ModelB>>}
    /\ config \in {c \in Configs :
                    /\ c.include_patterns = << <<"*">> >>
                    /\ c.exclude_patterns = <<>>
                    /\ Len(c.rules) > 1}
    /\ rules = _initialize_rules(config)
    /\ \E c \in Catalogs(config) \cup CatalogsOneDeprecated(config) :
        /\ provider = c.cat
        /\ raises = c.failing
    /\ EngineVarsIdle
    /\ CallVarsIdle
    /\ RuleVarsIdle
    /\ BatchVarsIdle

NextBoth ==
    \/ ValidateBegin
    \/ ValidateEvalRule
    \/ ValidateReturn
    \/ KeepReport
    \/ SingleBeginAny
    \/ SingleEvalRule
    \/ SingleReturn

SpecBoth ==
    InitBoth /\ [][NextBoth]_vars

\* what the claim compares of an outcome
OutcomeView(r) ==
    [rule_name |-> r.rule_name, passed |-> r.passed, severity |-> r.severity,
     message |-> r.message]

\* the outcomes of a report about one model, in report order
OutcomesAbout(rep, unique_id) ==
    LET about == SelectSeq(rep.results, LAMBDA r : r.model_unique_id = unique_id)
    IN  [k \in 1..Len(about) |-> OutcomeView(about[k])]

\* validate_single_model(name) has returned its report for a model that
\* validate() selects and whose name no other model of the graph has
SingleDoneForUnique ==
    /\ pc = "single_done"
    /\ Len(models_to_validate) = 1
    /\ \A i \in 1..Len(manifest) :
            manifest[i].name = models_to_validate[1].name
                => manifest[i].unique_id = models_to_validate[1].unique_id
    /\ _should_include_model(config, models_to_validate[1])
    /\ arg = Some(models_to_validate[1].name)

\* C29: for the same engine, graph and provider data and a model M that
\* validate() selects and whose name is unique in the graph, the outcomes
\* about M in validate()'s report are, rule by rule, the same (pass/fail,
\* severity, message) as those of validate_single_model(M.name).
SingleAgreesWithValidate ==
    SingleDoneForUnique =>
        \A i \in 1..Len(kept) :
            OutcomesAbout(kept[i].report, models_to_validate[1].unique_id)
                = OutcomesAbout(report, models_to_validate[1].unique_id)

\* validate() failed the model on an upstream rule and validate_single_model
\* passed it
VerdictsDiffer ==
    /\ SingleDoneForUnique
    /\ raises = {}
    /\ \E i \in 1..Len(kept) :
        LET all == OutcomesAbout(kept[i].report, models_to_validate[1].unique_id)
            one == OutcomesAbout(report, models_to_validate[1].unique_id)
        IN  /\ Len(all) = Len(one)
            /\ \E k \in 1..Len(all) :
                /\ all[k].rule_name = "no_deprecated_upstream"
                /\ ~all[k].passed
                /\ one[k].passed

\* the rules that read only the model and its own status agree
OwnStatusRulesAgree ==
    SingleDoneForUnique =>
        \A i \in 1..Len(kept) :
            LET all == OutcomesAbout(kept[i].report, models_to_validate[1].unique_id)
                one == OutcomesAbout(report, models_to_validate[1].unique_id)
            IN  /\ Len(all) = Len(one)
                /\ \A k \in 1..Len(all) :
                    all[k].rule_name \notin {"no_deprecated_upstream",
                                             "upstream_must_have_owner"}
                        => all[k] = one[k]

-----------------------------------------------------------------------------
(* Runs of validate() and validate_single_model() on graphs whose          *)
(* depends_on edges hold a self-loop, a cycle, duplicates and dangling     *)
(* ids.  The code is synchronous: a call that has started goes on until it *)
(* returns, which the fairness conditions on its loop steps express.       *)

\* stg_a depending on DIM_B: with dim_b -> stg_a and DIM_B -> dim_b a cycle
ModelACyclic ==
    [ModelA EXCEPT !.depends_on = <<"model.c">>]

\* include patterns that select DIM_B alone
OnlyDimPatterns ==
    << <<"D","*">> >>

InitTerm ==
    /\ manifest \in {<<ModelACyclic, ModelB, ModelC>>, <<ModelC>>}
    /\ config \in {[c EXCEPT !.include_patterns = p, !.exclude_patterns = <<>>] :
                        c \in {x \in Configs : Len(x.rules) > 2},
                        p \in {<< <<"*">> >>, OnlyDimPatterns}}
    /\ rules = _initialize_rules(config)
    /\ \E c \in Catalogs(config) :
        /\ provider = c.cat
        /\ raises = c.failing
    /\ EngineVarsIdle
    /\ CallVarsIdle
    /\ RuleVarsIdle
    /\ BatchVarsIdle

NextTerm ==
    \/ ValidateBegin
    \/ ValidateEvalRule
    \/ ValidateReturn
    \/ SingleBeginAny
    \/ SingleEvalRule
    \/ SingleReturn

SpecTerm ==
    /\ InitTerm
    /\ [][NextTerm]_vars
    /\ WF_vars(ValidateEvalRule)
    /\ WF_vars(ValidateReturn)
    /\ WF_vars(SingleEvalRule)
    /\ WF_vars(SingleReturn)

\* the identifiers the current run asked the provider for
RequestedUrns ==
    UNION {IF calls[k].op = "batch"
           THEN {calls[k].urns[j] : j \in 1..Len(calls[k].urns)}
           ELSE {calls[k].urn} : k \in 1..Len(calls)}

\* the identifiers of the run's models and of their direct dependencies
OneHopUrns ==
    {PoolUrn(config, models_to_validate[i]) : i \in 1..Len(models_to_validate)}
    \cup UNION {{PoolUrn(config, d) : d \in ResolvedDeps(models_to_validate[i])} :
                    i \in 1..Len(models_to_validate)}

\* a run has fetched and is in or past its rule loop
RunFetched ==
    pc \in {"validate", "validate_done", "single", "single_done"}

\* the run asked for the identifiers one hop away and no other
OneHopOnly ==
    RunFetched => RequestedUrns = OneHopUrns

\* how often the run evaluated a rule on a model
TimesEvaluated(model, rule) ==
    Cardinality({k \in 1..Len(evals) :
                    /\ evals[k].model = model.unique_id
                    /\ evals[k].rule = rule.rule_name})

\* no pair is evaluated twice, and a finished run has evaluated each once
EvaluatedOnce ==
    RunFetched =>
        \A i \in 1..Len(models_to_validate), r \in 1..Len(rules) :
            /\ TimesEvaluated(models_to_validate[i], rules[r]) <= 1
            /\ pc \in {"validate_done", "single_done"} =>
                    TimesEvaluated(models_to_validate[i], rules[r]) = 1

\* C30: validate() and validate_single_model() terminate for every finite
\* model graph, self-loops, cycles, duplicates and dangling ids in depends_on
\* included: a run that has started its rule loop returns; the dependency
\* traversal never goes beyond one hop; each selected model is evaluated
\* exactly once per rule and run.
RunsTerminate ==
    /\ (pc = "validate") ~> (pc = "validate_done")
    /\ (pc = "single") ~> (pc = "single_done")
    /\ []OneHopOnly
    /\ []EvaluatedOnce

\* a finished validate() run on the cyclic graph that selected DIM_B alone:
\* its direct dependency dim_b was asked for, stg_a two hops away was not
RunsTerminateWitness ==
    /\ pc = "validate_done"
    /\ manifest = <<ModelACyclic, ModelB, ModelC>>
    /\ models_to_validate = <<ModelC>>
    /\ Len(evals) = Len(rules)
    /\ Len(rules) >= 2
    /\ PoolUrn(config, ModelB) \in RequestedUrns
    /\ PoolUrn(config, ModelACyclic) \notin RequestedUrns

=============================================================================
